---- MODULE Spec2Model ----
(***************************************************************************)
(* Workflow run engine of backend/workflow_runtime.py: the run registry    *)
(* (_RUNS behind the reentrant _LOCK), the scheduler worker _execute_run,  *)
(* the per-node agent decision loop _build_real_node_output with its live  *)
(* log callback, the control operations cancel/delete and the polling      *)
(* event stream.  One step of the model is one critical section of _LOCK   *)
(* (or one lock-free local step of a thread), so every state of the model  *)
(* is a state another thread can observe under the lock.                   *)
(***************************************************************************)
EXTENDS Integers, Sequences, FiniteSets, TLC

\* ---------------------------------------------------------------- bounds
NumNodes == 2
MaxEdges == 1
MaxTurns == 1
MaxCancels == 1
MaxStreamNodes == 2
MaxLoopTurns == 6

\* ------------------------------------------------------------- constants
None == -1
RunId == "wfr_1"
\* the node ids of a template with n nodes, in declaration order
NodeIds(n) == [i \in 1..n |-> i]
TERMINAL_STATES == {"success", "failed", "cancelled"}
Tools == {"web_search", "workspace_list_files"}
\* the names run_tool dispatches on (tooling.py list_tools / run_tool)
Catalog == {"web_search", "sandbox_exec"}
\* positional parameters run_tool accepts, and positional arguments the
\* decision loop passes to it (tool name, args, context)
RUN_TOOL_MAX_POSITIONAL == 2
CALL_POSITIONAL == 3
MAX_STEPS_CAP == 100
LastSeqs == {-1, 3}

VARIABLES
    RUNS,          \* _RUNS: run id -> run record
    created,       \* outcome of create_workflow_run: "none" | "admitted" | "rejected"
    now,           \* logical clock read by _now_iso
    pc,            \* position of the worker thread in _execute_run
    node_index,    \* index into order of the node the worker handles
    agent,         \* locals of the running _build_real_node_output call
    cancels,       \* number of cancel_workflow_run calls made
    stream         \* locals of one stream_workflow_run_events generator

vars == <<RUNS, created, now, pc, node_index, agent, cancels, stream>>

\* ------------------------------------------------------ sequence helpers
Range(s) == {s[i] : i \in DOMAIN s}

\* ------------------------------------------------- _topological_order
Indegree0(ids, edges) ==
    [n \in Range(ids) |-> Cardinality({i \in DOMAIN edges : edges[i].target = n})]

\* A plausible slip: adjacency[source] is a set, so an edge declared twice
\* is relaxed once although it was counted twice in indegree.
AdjacencyDistinct(edges, n) ==
    LET out == SelectSeq(edges, LAMBDA e : e.source = n)
        first == SelectSeq([i \in DOMAIN out |-> i],
                           LAMBDA i : \A j \in 1..(i - 1) : out[j].target # out[i].target)
    IN  [i \in DOMAIN first |-> out[first[i]].target]

Adjacency(edges, n) ==
    LET out == SelectSeq(edges, LAMBDA e : e.source = n)
    IN  [i \in DOMAIN out |-> out[i].target]

RECURSIVE RelaxTargets(_, _, _)
\* for target in adjacency[node_id]: indegree[target] -= 1; enqueue at zero
RelaxTargets(targets, indegree, queue) ==
    IF targets = <<>> THEN [indegree |-> indegree, queue |-> queue]
    ELSE LET t == Head(targets)
             d == [indegree EXCEPT ![t] = @ - 1]
         IN  RelaxTargets(Tail(targets), d,
                          IF d[t] = 0 THEN Append(queue, t) ELSE queue)

RECURSIVE Kahn(_, _, _, _)
Kahn(edges, queue, indegree, ordered) ==
    IF queue = <<>> THEN ordered
    ELSE LET n == Head(queue)
             r == RelaxTargets(Adjacency(edges, n), indegree, Tail(queue))
         IN  Kahn(edges, r.queue, r.indegree, Append(ordered, n))

\* A plausible slip: the declaration order is returned without looking at edges.
TopologicalOrderDeclared(ids, edges) ==
    [ok |-> TRUE, order |-> ids]

\* None is modelled as ok = FALSE.
TopologicalOrder(ids, edges) ==
    IF \E i \in DOMAIN edges :
          edges[i].source \notin Range(ids) \/ edges[i].target \notin Range(ids)
    THEN [ok |-> FALSE, order |-> <<>>]
    ELSE LET indegree == Indegree0(ids, edges)
             queue == SelectSeq(ids, LAMBDA n : indegree[n] = 0)
             ordered == Kahn(edges, queue, indegree, <<>>)
         IN  IF Len(ordered) # Len(ids)
             THEN [ok |-> FALSE, order |-> <<>>]
             ELSE [ok |-> TRUE, order |-> ordered]

\* ------------------------------------------------------------ templates
EdgePairs(n) == [source : 1..n, target : 1..n]

EdgeLists(n) == UNION {[1..k -> EdgePairs(n)] : k \in 0..MaxEdges}

\* the requests create_workflow_run is called with: n nodes, a list of edges,
\* and whether a code-named deliverable is requested
Templates ==
    UNION {[n : {k}, edges : EdgeLists(k), requestedCode : BOOLEAN] : k \in 1..NumNodes}

\* linear runs 1 -> 2 -> ... -> n, the runs the event stream is observed on
LinearTemplates ==
    {[n |-> k, edges |-> [i \in 1..(k - 1) |-> [source |-> i, target |-> i + 1]],
      requestedCode |-> FALSE] : k \in 1..MaxStreamNodes}

\* runs of a single node, the runs stream termination is checked on
SingleNodeTemplates == [n : {1}, edges : {<<>>}, requestedCode : BOOLEAN]

\* _build_run_from_request raises ValueError on these templates.
TemplateRejected(tpl) ==
    \/ ~TopologicalOrder(NodeIds(tpl.n), tpl.edges).ok
    \/ \E i \in DOMAIN tpl.edges : tpl.edges[i].source = tpl.edges[i].target

\* the requests create_workflow_run can be called with when node ids may
\* repeat and edges may name a node the template does not have
IdLists == UNION {[1..k -> 1..NumNodes] : k \in 1..NumNodes}

RequestEdgeLists ==
    UNION {[1..k -> [source : 1..(NumNodes + 1), target : 1..(NumNodes + 1)]] : k \in 0..MaxEdges}

Requests == [ids : IdLists, edges : RequestEdgeLists]

\* A plausible slip: the duplicate-id check is missing.
BuildRunRaisesNoDupCheck(ids, edges) ==
    IF ~TopologicalOrder(ids, edges).ok THEN "must be a valid DAG"
    ELSE "none"

\* lines 1409-1428: the ValueError _build_run_from_request raises, or "none"
BuildRunRaises(ids, edges) ==
    IF Cardinality(Range(ids)) # Len(ids) THEN "duplicate node ids"
    ELSE IF ~TopologicalOrder(ids, edges).ok THEN "must be a valid DAG"
    ELSE IF \E i \in DOMAIN edges :
               edges[i].source \notin Range(ids) \/ edges[i].target \notin Range(ids)
         THEN "must reference existing nodes"
    ELSE IF \E i \in DOMAIN edges : edges[i].source = edges[i].target
         THEN "cannot self-reference"
    ELSE "none"

\* A plausible slip: incoming_edges[target] is assigned, not appended to, so
\* only the last declared incoming edge is kept.
IncomingEdgesLastOnly(edges, n) ==
    LET inc == SelectSeq([i \in DOMAIN edges |-> i], LAMBDA i : edges[i].target = n)
    IN  IF inc = <<>> THEN <<>> ELSE <<inc[Len(inc)]>>

\* incoming_edges[n] / outgoing_edges[n]: the edges of n in declaration order,
\* each named by its index in the template's edge list.
IncomingEdges(edges, n) ==
    SelectSeq([i \in DOMAIN edges |-> i], LAMBDA i : edges[i].target = n)

OutgoingEdges(edges, n) ==
    SelectSeq([i \in DOMAIN edges |-> i], LAMBDA i : edges[i].source = n)

BuildRunFromRequest(tpl) ==
    [ status |-> "queued",
      startedAt |-> None,
      finishedAt |-> None,
      durationMs |-> None,
      requestedCode |-> tpl.requestedCode,
      outputs |-> FALSE,
      deliverables |-> 0,
      cancelRequested |-> FALSE,
      error |-> "",
      activeNodeId |-> None,
      progress |-> [totalNodes |-> tpl.n, completedNodes |-> 0, failedNodes |-> 0],
      logs |-> <<>>,
      nodeRuns |-> [n \in 1..tpl.n |->
                      [status |-> "queued", startedAt |-> None, finishedAt |-> None,
                       durationMs |-> None, output |-> FALSE, upstreamInputs |-> <<>>]],
      edges |-> tpl.edges,
      order |-> TopologicalOrder(NodeIds(tpl.n), tpl.edges).order,
      nodeOutputs |-> {},
      handoffPackets |-> <<>>,
      seq |-> 0 ]

\* ------------------------------------------------------------- event log
NextLogSeqStuck(s) == s

NextLogSeq(s) == s + 1

\* _append_log: ev is the index of the trace event the entry was made from
\* (0 for entries the scheduler or a control operation writes itself).
AppendLog(run, category, title, node_id, ev) ==
    [run EXCEPT
        !.seq = NextLogSeq(run.seq),
        !.logs = Append(run.logs,
                        [seq |-> NextLogSeq(run.seq), category |-> category,
                         title |-> title, nodeId |-> node_id, ev |-> ev])]

ComputeDurationMs(started_at, finished_at) ==
    IF started_at = None \/ finished_at = None THEN None
    ELSE finished_at - started_at

\* ---------------------------------------------------- scheduler helpers
\* A plausible slip: only the running node is cancelled, queued ones are left.
MarkCancelledRunningOnly(run, t) ==
    LET fin == IF run.finishedAt = None THEN t ELSE run.finishedAt
        r1 == [run EXCEPT
                 !.status = IF @ \in TERMINAL_STATES THEN @ ELSE "cancelled",
                 !.finishedAt = fin,
                 !.activeNodeId = None,
                 !.nodeRuns = [n \in DOMAIN run.nodeRuns |->
                     IF run.nodeRuns[n].status = "running"
                     THEN [run.nodeRuns[n] EXCEPT !.status = "cancelled", !.finishedAt = t]
                     ELSE run.nodeRuns[n]],
                 !.durationMs = ComputeDurationMs(run.startedAt, fin)]
    IN  AppendLog(r1, "control", "Run cancelled", None, 0)

\* A plausible slip: activeNodeId is left pointing at the cancelled node.
MarkCancelledKeepsActive(run, t) ==
    LET fin == IF run.finishedAt = None THEN t ELSE run.finishedAt
        r1 == [run EXCEPT
                 !.status = IF @ \in TERMINAL_STATES THEN @ ELSE "cancelled",
                 !.finishedAt = fin,
                 !.nodeRuns = [n \in DOMAIN run.nodeRuns |->
                     IF run.nodeRuns[n].status \in {"queued", "running"}
                     THEN LET nf == IF run.nodeRuns[n].finishedAt = None THEN t
                                    ELSE run.nodeRuns[n].finishedAt
                          IN  [run.nodeRuns[n] EXCEPT
                                 !.status = "cancelled",
                                 !.finishedAt = nf,
                                 !.durationMs = ComputeDurationMs(run.nodeRuns[n].startedAt, nf)]
                     ELSE run.nodeRuns[n]],
                 !.durationMs = ComputeDurationMs(run.startedAt, fin)]
    IN  AppendLog(r1, "control", "Run cancelled", None, 0)

\* _mark_cancelled
MarkCancelled(run, t) ==
    LET fin == IF run.finishedAt = None THEN t ELSE run.finishedAt
        r1 == [run EXCEPT
                 !.status = IF @ \in TERMINAL_STATES THEN @ ELSE "cancelled",
                 !.finishedAt = fin,
                 !.activeNodeId = None,
                 !.nodeRuns = [n \in DOMAIN run.nodeRuns |->
                     IF run.nodeRuns[n].status \in {"queued", "running"}
                     THEN LET nf == IF run.nodeRuns[n].finishedAt = None THEN t
                                    ELSE run.nodeRuns[n].finishedAt
                          IN  [run.nodeRuns[n] EXCEPT
                                 !.status = "cancelled",
                                 !.finishedAt = nf,
                                 !.durationMs = ComputeDurationMs(run.nodeRuns[n].startedAt, nf)]
                     ELSE run.nodeRuns[n]],
                 !.durationMs = ComputeDurationMs(run.startedAt, fin)]
    IN  AppendLog(r1, "control", "Run cancelled", None, 0)

\* _finalize_run_success up to the call of _persist_run_deliverables
FinalizeStamp(run, t) ==
    [run EXCEPT
        !.status = "success",
        !.finishedAt = t,
        !.activeNodeId = None,
        !.durationMs = ComputeDurationMs(run.startedAt, t)]

\* _finalize_run_success when _persist_run_deliverables returns
FinalizeRunSuccess(run, t) ==
    LET r1 == [FinalizeStamp(run, t) EXCEPT
                 !.deliverables = 1 + (IF run.requestedCode THEN 1 ELSE 0),
                 !.outputs = TRUE]
    IN  AppendLog(r1, "output", "Workflow outputs finalized", None, 0)

\* A plausible slip: the run is failed but the running node is left running.
FailRunLeavesNode(run, t, exc) ==
    LET r1 == [run EXCEPT
                 !.status = "failed",
                 !.activeNodeId = None,
                 !.error = exc,
                 !.finishedAt = t,
                 !.durationMs = ComputeDurationMs(run.startedAt, t)]
    IN  AppendLog(r1, "error", "Run failed", None, 0)

\* A plausible slip: the handler fails every node that has not finished,
\* the queued ones included.
FailRunFailsUnfinished(run, t, exc) ==
    LET running == {n \in DOMAIN run.nodeRuns : run.nodeRuns[n].status = "running"}
        current_node_id ==
            IF running = {} THEN None
            ELSE CHOOSE n \in running : \A m \in running : n <= m
        nrs == [n \in DOMAIN run.nodeRuns |->
                  IF run.nodeRuns[n].status \in {"queued", "running"}
                  THEN [run.nodeRuns[n] EXCEPT
                          !.status = "failed",
                          !.finishedAt = t,
                          !.durationMs = ComputeDurationMs(run.nodeRuns[n].startedAt, t)]
                  ELSE run.nodeRuns[n]]
        r1 == [run EXCEPT
                 !.status = "failed",
                 !.activeNodeId = None,
                 !.error = exc,
                 !.finishedAt = t,
                 !.durationMs = ComputeDurationMs(run.startedAt, t),
                 !.nodeRuns = nrs,
                 !.progress.failedNodes = Cardinality({n \in DOMAIN run.nodeRuns : nrs[n].status = "failed"})]
    IN  AppendLog(r1, "error", "Run failed", current_node_id, 0)

\* the except Exception handler of _execute_run; exc is str(exc)
FailRun(run, t, exc) ==
    LET running == {n \in DOMAIN run.nodeRuns : run.nodeRuns[n].status = "running"}
        \* for node_run in run["nodeRuns"]: first running one, then break
        current_node_id ==
            IF running = {} THEN None
            ELSE CHOOSE n \in running : \A m \in running : n <= m
        nrs == [n \in DOMAIN run.nodeRuns |->
                  IF n = current_node_id
                  THEN [run.nodeRuns[n] EXCEPT
                          !.status = "failed",
                          !.finishedAt = t,
                          !.durationMs = ComputeDurationMs(run.nodeRuns[n].startedAt, t)]
                  ELSE run.nodeRuns[n]]
        r1 == [run EXCEPT
                 !.status = "failed",
                 !.activeNodeId = None,
                 !.error = exc,
                 !.finishedAt = t,
                 !.durationMs = ComputeDurationMs(run.startedAt, t),
                 !.nodeRuns = nrs,
                 !.progress.failedNodes = Cardinality({n \in DOMAIN run.nodeRuns : nrs[n].status = "failed"})]
    IN  AppendLog(r1, "error", "Run failed", current_node_id, 0)

HandoffKey(source_id, node_id) == <<source_id, node_id>>

PutPacket(packets, key, packet) ==
    [k \in (DOMAIN packets) \cup {key} |-> IF k = key THEN packet ELSE packets[k]]

\* the upstream_inputs list built when node_id starts
UpstreamInputs(run, node_id) ==
    LET inc == IncomingEdges(run.edges, node_id)
    IN  [j \in DOMAIN inc |->
           LET source_id == run.edges[inc[j]].source
               handoff_key == HandoffKey(source_id, node_id)
               has_output == source_id \in run.nodeOutputs
           IN  [ fromNodeId |-> source_id,
                 edge |-> inc[j],
                 packet |-> IF handoff_key \in DOMAIN run.handoffPackets
                            THEN run.handoffPackets[handoff_key].edge
                            ELSE IF has_output THEN inc[j] ELSE None,
                 output |-> has_output ]]

\* node start: lines 2010-2103 of _execute_run
StartNode(run, node_id, t) ==
    LET r1 == [run EXCEPT
                 !.nodeRuns[node_id].status = "running",
                 !.nodeRuns[node_id].startedAt = t,
                 !.activeNodeId = node_id]
        r2 == AppendLog(r1, "lifecycle", "Agent running", node_id, 0)
        r3 == [r2 EXCEPT !.nodeRuns[node_id].upstreamInputs = UpstreamInputs(run, node_id)]
    IN  AppendLog(r3, "input", "Agent inputs prepared", node_id, 0)

\* ------------------------------------------- _build_real_node_output
AgentIdle ==
    [ node |-> None, turn |-> 0, trace_events |-> <<>>, flushed_event_ids |-> {},
      pending |-> <<>>, last_tool_name |-> "", repeat_count |-> 0, result |-> "none",
      max_turns |-> 0, step_history |-> <<>>, requests |-> <<>>, finals |-> <<>>,
      error |-> "", client |-> "", llm |-> [attempts |-> 0, replies |-> <<>>],
      workspaceRefs |-> <<>>, data |-> [notes |-> "absent"] ]

\* A plausible slip: the lower clamp max(1, .) is missing.
ClampMaxTurnsNoFloor(env) ==
    IF env < MAX_STEPS_CAP THEN env ELSE MAX_STEPS_CAP

\* line 993: max(1, min(int(WORKFLOW_NODE_MAX_STEPS), 100))
ClampMaxTurns(env) ==
    LET capped == IF env < MAX_STEPS_CAP THEN env ELSE MAX_STEPS_CAP
    IN  IF capped > 1 THEN capped ELSE 1

\* locals at entry when WORKFLOW_NODE_MAX_STEPS is env
AgentStartEnv(node_id, env) ==
    [AgentIdle EXCEPT !.node = node_id,
                      !.trace_events = <<"Agent runtime initialized">>,
                      !.max_turns = ClampMaxTurns(env)]

\* locals at entry: trace_events holds the initialization event only
AgentStart(node_id) == AgentStartEnv(node_id, MaxTurns)

\* run_tool as the loop calls it: nargs positional arguments, and whether
\* the arguments validate and the tool body completes
RunTool(tool_name, nargs, completes) ==
    IF nargs > RUN_TOOL_MAX_POSITIONAL THEN "TypeError"
    ELSE IF tool_name \notin Catalog THEN "KeyError"
    ELSE IF ~completes THEN "ToolError"
    ELSE "ok"

\* lines 1190-1272: the try block returns normally or its except clause runs
ToolCallOk(d) == RunTool(d.tool, CALL_POSITIONAL, d.ok) = "ok"

\* ----------------------------------------------- code bundle validation
\* raw file paths of a bundle, split at "/"
RawPaths == {<<>>, <<"..">>, <<".", "..">>, <<"", "src", "main.py">>, <<"..", "README.md">>}

\* lines 625-632 of _safe_bundle_rel_path: the parts that are kept; no part
\* kept means the path is rejected (None)
BundlePathParts(raw_path) ==
    SelectSeq(raw_path, LAMBDA part : part \notin {"", ".", ".."})

\* what data.deliverables[name] can be
Payloads ==
    [kind : {"absent", "string"}, files_kind : {"absent"}, files : {{}}]
    \cup [kind : {"dict"}, files_kind : {"absent", "list"}, files : {{}}]
    \cup [kind : {"dict"}, files_kind : {"dict"}, files : SUBSET RawPaths]

\* A plausible slip: "return files" instead of "return files or None".
ExtractCodeBundleFilesAllowsEmpty(payload) ==
    IF payload.kind # "dict" \/ payload.files_kind # "dict"
    THEN [some |-> FALSE, files |-> {}]
    ELSE [some |-> TRUE,
          files |-> {BundlePathParts(p) : p \in payload.files} \ {<<>>}]

\* _extract_code_bundle_files: some = FALSE is None
ExtractCodeBundleFiles(payload) ==
    IF payload.kind # "dict" \/ payload.files_kind # "dict"
    THEN [some |-> FALSE, files |-> {}]
    ELSE LET files == {BundlePathParts(p) : p \in payload.files} \ {<<>>}
         IN  [some |-> files # {}, files |-> files]

\* the data of a final decision, as far as the sink check reads it: whether
\* data.deliverables is a dict, and its entry for the required name
FinalData == [deliverables_is_dict : BOOLEAN, payload : Payloads]

\* lines 1285-1296: missing_code_bundles is non-empty
MissingCodeBundles(data) ==
    IF ~data.deliverables_is_dict THEN TRUE
    ELSE ~ExtractCodeBundleFiles(data.payload).some

\* the final decision carrying data
FinalDecision(data) ==
    [kind |-> "final", tool |-> "", ok |-> ~MissingCodeBundles(data)]

\* ------------------------------------- _invoke_runtime_agent_decision
\* the client path taken: the OpenAI SDK when it imported, else the
\* langchain ChatOpenAI fallback
Clients == {"sdk", "fallback"}

\* what the model answers to the first and to a second request of one
\* decision: text that parses and validates, or not
ReplySeqs == [1..2 -> {"json", "malformed"}]

\* the number of requests made and whether the call raises
InvokeRuntimeAgentDecision(client, replies) ==
    IF client = "sdk"
    THEN [attempts |-> 1, raised |-> replies[1] = "malformed"]
    ELSE IF replies[1] = "json" THEN [attempts |-> 1, raised |-> FALSE]
    ELSE [attempts |-> 2, raised |-> replies[2] = "malformed"]

\* what one LLM reply can be, as far as the loop distinguishes replies
\* --------------------------------------------------- workspace refs
\* A path string: absolute or relative, and its segments.  The empty
\* relative path stands for "" and for a string of whitespace only.
PathSegs ==
    { <<>>, <<"out">>, <<"..">>, <<"ws", "out">>, <<"..", "out">>,
      <<"out", "..">>, <<"ws", "..", "..">> }
Paths == [abs : BOOLEAN, segs : PathSegs]
BlankPath == [abs |-> FALSE, segs |-> <<>>]

\* what one item of data.workspaceRefs can be: a string, a dict whose path
\* is under the key "path"/"file"/"relativePath" (key = "path") or under a
\* key that is not read (key = "other"), or any other value
RefValues ==
    [type : {"str"}, key : {""}, path : Paths, kind : {""}]
    \cup [type : {"dict"}, key : {"path", "other"}, path : Paths, kind : {"", "file"}]
    \cup {[type |-> "other", key |-> "", path |-> BlankPath, kind |-> ""]}

NoRef == [some |-> FALSE, path |-> BlankPath, kind |-> ""]

\* _normalize_workspace_ref: None, or a ref with the stripped path
NormalizeWorkspaceRef(value) ==
    IF value.type = "str"
    THEN IF value.path = BlankPath THEN NoRef
         ELSE [some |-> TRUE, path |-> value.path, kind |-> "file"]
    ELSE IF value.type # "dict" THEN NoRef
    ELSE LET path == IF value.key = "path" THEN value.path ELSE BlankPath
         IN  IF path = BlankPath THEN NoRef
             ELSE [some |-> TRUE, path |-> path, kind |-> value.kind]

MERGE_MAX_ITEMS == 120

RECURSIVE MergeItems(_, _, _)
\* the loops of _merge_workspace_refs over the items of all groups
MergeItems(items, merged, seen) ==
    IF items = <<>> \/ Len(merged) >= MERGE_MAX_ITEMS THEN merged
    ELSE LET normalized == NormalizeWorkspaceRef(Head(items))
             key == <<normalized.path, normalized.kind>>
         IN  IF ~normalized.some \/ key \in seen
             THEN MergeItems(Tail(items), merged, seen)
             ELSE MergeItems(Tail(items),
                             Append(merged, [path |-> normalized.path, kind |-> normalized.kind]),
                             seen \cup {key})

\* _merge_workspace_refs(auto_workspace_refs, model_workspace_refs)
MergeWorkspaceRefs(auto_workspace_refs, model_workspace_refs) ==
    MergeItems(auto_workspace_refs \o model_workspace_refs, <<>>, {})

\* lines 1280-1283 and 1330-1338: data.workspaceRefs of the node output.
\* When nothing was merged the model's own list stays in data; its items
\* that have a "path" field all have a blank one.
OutputWorkspaceRefs(model_workspace_refs, merged) ==
    IF merged # <<>> THEN merged
    ELSE LET with_path == SelectSeq(model_workspace_refs,
                                    LAMBDA v : v.type = "dict" /\ v.key = "path")
         IN  [i \in DOMAIN with_path |-> [path |-> with_path[i].path, kind |-> with_path[i].kind]]

MaxRefs == 2

\* data.workspaceRefs as the model can send it
ModelRefLists == UNION {[1..n -> RefValues] : n \in 0..MaxRefs}

Decisions ==
    {[kind |-> "llm_error", tool |-> "", ok |-> FALSE]}
    \cup {[kind |-> "tool_norequest", tool |-> "", ok |-> FALSE]}
    \cup [kind : {"tool"}, tool : Tools, ok : BOOLEAN]
    \cup [kind : {"final"}, tool : {""}, ok : BOOLEAN]
    \cup [kind : {"final_refs"}, tool : {""}, ok : {TRUE}]

\* the replies the scheduler-level specification draws from: one of each
\* way a turn can end (tool executed, final accepted, final rejected, error)
SchedulerDecisions ==
    {d \in Decisions :
        \/ d.kind \in {"llm_error", "final"}
        \/ d.kind = "tool" /\ d.tool = "web_search" /\ d.ok}

Ev(title, live) == [title |-> title, live |-> live]

\* A plausible slip: the consecutive count is not reset when the tool changes.
RepeatCountNoReset(a, tool_name) == a.repeat_count + 1

\* repeat_count after a request for tool_name (lines 1127-1132)
RepeatCount(a, tool_name) ==
    IF tool_name = a.last_tool_name THEN a.repeat_count + 1 ELSE 1

\* The trace events one turn produces, in order; live = passed to
\* _flush_trace_event (else appended to trace_events only).
TurnEvents(a, d, is_sink, required_code) ==
    LET step == <<Ev("Agent step", TRUE)>>
    IN  CASE d.kind = "llm_error" -> <<>>
          [] d.kind = "tool_norequest" ->
                step \o <<Ev("Invalid tool request", FALSE)>>
          [] d.kind = "tool" ->
                LET rc == RepeatCount(a, d.tool)
                IN  IF rc >= 5 THEN step \o <<Ev("Circuit breaker triggered", TRUE)>>
                    ELSE step
                         \o (IF rc >= 3 THEN <<Ev("Repetition warning", TRUE)>> ELSE <<>>)
                         \o <<Ev("Tool call requested", TRUE)>>
                         \o <<Ev(IF ToolCallOk(d) THEN "Tool call completed" ELSE "Tool call failed", TRUE)>>
          [] d.kind = "final" /\ is_sink /\ required_code /\ ~d.ok ->
                step \o <<Ev("Deliverable contract incomplete", FALSE)>>
          [] d.kind = "final" ->
                step \o <<Ev("Agent output produced", FALSE)>>
          [] OTHER ->
                step \o <<Ev("Agent output produced", FALSE),
                          Ev("Workspace references recorded", FALSE)>>

\* A plausible slip: the tool call is not wrapped in try/except, so a failing
\* call leaves the loop.
TurnResultToolRaises(a, d, is_sink, required_code) ==
    CASE d.kind = "llm_error" -> "raise"
      [] d.kind = "tool" ->
            IF RepeatCount(a, d.tool) < 5 /\ ~ToolCallOk(d) THEN "raise"
            ELSE IF a.turn + 1 < a.max_turns THEN "none" ELSE "raise"
      [] d.kind = "tool_norequest" ->
            IF a.turn + 1 < a.max_turns THEN "none" ELSE "raise"
      [] d.kind = "final" /\ is_sink /\ required_code /\ ~d.ok ->
            IF a.turn + 1 < a.max_turns THEN "none" ELSE "raise"
      [] OTHER -> "output"

\* "output", "raise", or "none" when the loop goes on to the next turn
TurnResult(a, d, is_sink, required_code) ==
    CASE d.kind = "llm_error" -> "raise"
      [] d.kind \in {"tool", "tool_norequest"} ->
            IF a.turn + 1 < a.max_turns THEN "none" ELSE "raise"
      [] d.kind = "final" /\ is_sink /\ required_code /\ ~d.ok ->
            IF a.turn + 1 < a.max_turns THEN "none" ELSE "raise"
      [] OTHER -> "output"

\* the replies the decision-loop specification draws from: a catalogued tool
\* whose call would complete, and one run_tool does not know
LoopDecisions ==
    {d \in Decisions :
        \/ d.kind \in {"llm_error", "tool_norequest"}
        \/ d \in {FinalDecision(data) : data \in FinalData}
        \/ d.kind = "tool" /\ d.tool = "web_search" /\ d.ok
        \/ d.kind = "tool" /\ d.tool = "workspace_list_files" /\ ~d.ok}

\* the values of WORKFLOW_NODE_MAX_STEPS the loop specification starts with
EnvValues == {0, MaxLoopTurns}

\* the exception a raising turn leaves the loop with
TurnError(a, d, is_sink, required_code) ==
    IF TurnResult(a, d, is_sink, required_code) # "raise" THEN ""
    ELSE CASE d.kind = "llm_error" -> "llm"
           [] d.kind = "final" -> "missing required code bundle deliverables"
           [] OTHER -> "exceeded max decision turns"

Hist(turn, action, tool) == [turn |-> turn, action |-> action, tool |-> tool]

\* A plausible slip: the deliverable check is not restricted to sink nodes.
TurnHistoryIgnoresSink(a, d, is_sink, required_code) ==
    IF d.kind = "final" /\ required_code /\ ~d.ok
    THEN <<Hist(a.turn + 1, "validation_retry", "")>>
    ELSE <<>>

\* the entries one turn appends to step_history, in order
TurnHistory(a, d, is_sink, required_code) ==
    LET t == a.turn + 1
    IN  CASE d.kind = "tool_norequest" -> <<Hist(t, "tool_error", "")>>
          [] d.kind = "tool" ->
                LET rc == RepeatCount(a, d.tool)
                IN  IF rc >= 5 THEN <<Hist(t, "circuit_breaker", "")>>
                    ELSE (IF rc >= 3 THEN <<Hist(t, "repetition_warning", "")>> ELSE <<>>)
                         \o <<Hist(t, IF ToolCallOk(d) THEN "tool_result" ELSE "tool_error", d.tool)>>
          [] d.kind = "final" /\ is_sink /\ required_code /\ ~d.ok ->
                <<Hist(t, "validation_retry", "")>>
          [] OTHER -> <<>>

\* one iteration of "for turn_index in range(max_turns)"
AgentStep(a, d, is_sink, required_code) ==
    LET evs == TurnEvents(a, d, is_sink, required_code)
        base == Len(a.trace_events)
        live == SelectSeq([i \in DOMAIN evs |-> i], LAMBDA i : evs[i].live)
    IN  [a EXCEPT
           !.turn = @ + 1,
           !.trace_events = @ \o [i \in DOMAIN evs |-> evs[i].title],
           !.pending = [i \in DOMAIN live |-> base + live[i]],
           !.last_tool_name = IF d.kind = "tool" THEN d.tool ELSE @,
           !.repeat_count = IF d.kind = "tool" THEN RepeatCount(a, d.tool) ELSE @,
           !.step_history = @ \o TurnHistory(a, d, is_sink, required_code),
           !.requests = IF d.kind = "tool"
                        THEN Append(@, [turn |-> a.turn + 1, tool |-> d.tool, ok |-> d.ok])
                        ELSE @,
           !.finals = IF d.kind \in {"final", "final_refs"}
                      THEN Append(@, [turn |-> a.turn + 1, ok |-> d.ok])
                      ELSE @,
           !.error = TurnError(a, d, is_sink, required_code),
           !.result = TurnResult(a, d, is_sink, required_code)]

\* ----------------------------------------- integration of a node result
RECURSIVE AppendTrace(_, _, _, _)
\* _append_log for the trace events with indices idxs
AppendTrace(run, node_id, trace_events, idxs) ==
    IF idxs = <<>> THEN run
    ELSE AppendTrace(AppendLog(run, "thinking", trace_events[Head(idxs)], node_id, Head(idxs)),
                     node_id, trace_events, Tail(idxs))

\* lines 2162-2192: which trace events the scheduler appends itself
FlushTrace(run, a) ==
    IF a.flushed_event_ids = {}
    THEN AppendTrace(run, a.node, a.trace_events, [i \in DOMAIN a.trace_events |-> i])
    ELSE IF a.trace_events # <<>>
         THEN AppendTrace(run, a.node, a.trace_events, <<1>>)
         ELSE run

\* lines 2194-2197
StoreOutput(run, node_id) ==
    [run EXCEPT !.nodeOutputs = @ \cup {node_id},
                !.nodeRuns[node_id].output = TRUE]

RECURSIVE EmitHandoffsLogOnly(_, _, _)
\* A plausible slip: the packet is built and logged but not stored in _meta.
EmitHandoffsLogOnly(run, node_id, idxs) ==
    IF idxs = <<>> THEN run
    ELSE EmitHandoffsLogOnly(AppendLog(run, "handoff", "Handoff emitted", node_id, 0),
                             node_id, Tail(idxs))

RECURSIVE EmitHandoffs(_, _, _)
\* lines 2199-2227 for the outgoing edges named by idxs
EmitHandoffs(run, node_id, idxs) ==
    IF idxs = <<>> THEN run
    ELSE LET e == Head(idxs)
             r1 == [run EXCEPT !.handoffPackets =
                       PutPacket(@, HandoffKey(node_id, run.edges[e].target), [edge |-> e])]
         IN  EmitHandoffs(AppendLog(r1, "handoff", "Handoff emitted", node_id, 0),
                          node_id, Tail(idxs))

\* A plausible slip: the node is marked success but activeNodeId is not cleared.
CompleteNodeKeepsActive(run, node_id, t) ==
    LET nrs == [run.nodeRuns EXCEPT
                  ![node_id].status = "success",
                  ![node_id].finishedAt = t,
                  ![node_id].durationMs = ComputeDurationMs(run.nodeRuns[node_id].startedAt, t)]
    IN  [run EXCEPT
           !.nodeRuns = nrs,
           !.progress.completedNodes = Cardinality({n \in DOMAIN run.nodeRuns : nrs[n].status = "success"})]

\* lines 2229-2233
CompleteNode(run, node_id, t) ==
    LET nrs == [run.nodeRuns EXCEPT
                  ![node_id].status = "success",
                  ![node_id].finishedAt = t,
                  ![node_id].durationMs = ComputeDurationMs(run.nodeRuns[node_id].startedAt, t)]
    IN  [run EXCEPT
           !.nodeRuns = nrs,
           !.progress.completedNodes = Cardinality({n \in DOMAIN run.nodeRuns : nrs[n].status = "success"}),
           !.activeNodeId = None]

\* ----------------------------------------------------------------- Init
StreamIdle ==
    [ pc |-> "idle", cursor |-> None, settled_iterations |-> 0,
      last_seq |-> None, received |-> <<>>, completes |-> 0, quiet |-> <<>> ]

Init ==
    /\ RUNS = <<>>
    /\ created = "none"
    /\ now = 1
    /\ pc = "idle"
    /\ node_index = 1
    /\ agent = AgentIdle
    /\ cancels = 0
    /\ stream = StreamIdle

InRegistry == RunId \in DOMAIN RUNS
Run == RUNS[RunId]
Store(run) == [id \in {RunId} |-> run]
CurrentNode == Run.order[node_index]

\* ------------------------------------------------- create_workflow_run
CreateRejected ==
    /\ created = "none"
    /\ \/ \E tpl \in Templates : TemplateRejected(tpl)
       \/ \E req \in Requests : BuildRunRaises(req.ids, req.edges) # "none"
    /\ created' = "rejected"
    /\ UNCHANGED <<RUNS, now, pc, node_index, agent, cancels, stream>>

\* the run is stored and the worker thread started under one lock acquisition
CreateWorkflowRun ==
    /\ created = "none"
    /\ \E tpl \in Templates :
          /\ ~TemplateRejected(tpl)
          /\ RUNS' = Store(BuildRunFromRequest(tpl))
    /\ created' = "admitted"
    /\ pc' = "start"
    /\ UNCHANGED <<now, node_index, agent, cancels, stream>>

\* create_workflow_run called with a linear template
CreateLinearRun ==
    /\ created = "none"
    /\ \E tpl \in LinearTemplates :
          /\ ~TemplateRejected(tpl)
          /\ RUNS' = Store(BuildRunFromRequest(tpl))
    /\ created' = "admitted"
    /\ pc' = "start"
    /\ UNCHANGED <<now, node_index, agent, cancels, stream>>

\* create_workflow_run called with a single-node template
CreateSingleNodeRun ==
    /\ created = "none"
    /\ \E tpl \in SingleNodeTemplates :
          /\ ~TemplateRejected(tpl)
          /\ RUNS' = Store(BuildRunFromRequest(tpl))
    /\ created' = "admitted"
    /\ pc' = "start"
    /\ UNCHANGED <<now, node_index, agent, cancels, stream>>

\* ------------------------------------------------------- _execute_run
\* lines 1955-2001: admit the run
ExecuteRunStart ==
    /\ pc = "start"
    /\ IF ~InRegistry \/ Run.status # "queued"
       THEN /\ pc' = "done"
            /\ UNCHANGED <<RUNS, now>>
       ELSE /\ RUNS' = Store(
                  AppendLog(
                    AppendLog([Run EXCEPT !.status = "running", !.startedAt = now],
                              "lifecycle", "Run started", None, 0),
                    "input", "Run workspace ready", None, 0))
            /\ now' = now + 1
            /\ pc' = "node"
    /\ UNCHANGED <<created, node_index, agent, cancels, stream>>

\* lines 2004-2116: top of the loop over order
NodeStart ==
    /\ pc = "node"
    /\ IF ~InRegistry
       THEN /\ pc' = "except"
            /\ UNCHANGED <<RUNS, now>>
       ELSE IF Run.cancelRequested
       THEN /\ RUNS' = Store(MarkCancelled(Run, now))
            /\ now' = now + 1
            /\ pc' = "done"
       ELSE /\ RUNS' = Store(StartNode(Run, CurrentNode, now))
            /\ now' = now + 1
            /\ pc' = "precheck"
    /\ UNCHANGED <<created, node_index, agent, cancels, stream>>

\* lines 2118-2152: second cancellation check, then the decision loop starts
PreLoopCheck ==
    /\ pc = "precheck"
    /\ IF ~InRegistry
       THEN /\ pc' = "done"
            /\ UNCHANGED <<RUNS, now, agent>>
       ELSE IF Run.cancelRequested
       THEN /\ RUNS' = Store(MarkCancelled(Run, now))
            /\ now' = now + 1
            /\ pc' = "done"
            /\ UNCHANGED agent
       ELSE /\ pc' = "loop"
            /\ agent' = AgentStart(CurrentNode)
            /\ UNCHANGED <<RUNS, now>>
    /\ UNCHANGED <<created, node_index, cancels, stream>>

\* one turn of the decision loop (no lock held)
AgentTurn ==
    /\ pc = "loop"
    /\ agent.result = "none"
    /\ agent.pending = <<>>
    /\ agent.turn < agent.max_turns
    /\ \E d \in SchedulerDecisions :
          agent' = AgentStep(agent, d,
                             OutgoingEdges(Run.edges, agent.node) = <<>>,
                             Run.requestedCode)
    /\ UNCHANGED <<RUNS, created, now, pc, node_index, cancels, stream>>

\* _callback of _make_live_log_callback, called by _flush_trace_event
LiveLogCallback ==
    /\ pc = "loop"
    /\ agent.pending # <<>>
    /\ LET ev == Head(agent.pending)
       IN  IF ~InRegistry
           THEN /\ agent' = [agent EXCEPT !.pending = Tail(@)]
                /\ UNCHANGED RUNS
           ELSE LET r == AppendLog(Run, "thinking", agent.trace_events[ev], agent.node, ev)
                IN  /\ RUNS' = Store(r)
                    /\ agent' = [agent EXCEPT !.pending = Tail(@),
                                              !.flushed_event_ids = @ \cup {r.seq}]
    /\ UNCHANGED <<created, now, pc, node_index, cancels, stream>>

LoopReturned == pc = "loop" /\ agent.pending = <<>> /\ agent.result = "output"
LoopRaised == pc = "loop" /\ agent.pending = <<>> /\ agent.result = "raise"

\* A plausible slip: the loop over order stops after its first node.
AfterNodeSkipsRest == "finalize"

AfterNode == IF node_index < Len(Run.order) THEN "node" ELSE "finalize"

\* lines 2154-2233: integrate the node's result
Integrate ==
    /\ LoopReturned
    /\ IF ~InRegistry
       THEN /\ pc' = "done"
            /\ UNCHANGED <<RUNS, now, node_index>>
       ELSE IF Run.cancelRequested
       THEN /\ RUNS' = Store(MarkCancelled(Run, now))
            /\ now' = now + 1
            /\ pc' = "done"
            /\ UNCHANGED node_index
       ELSE /\ RUNS' = Store(
                  CompleteNode(
                    EmitHandoffs(StoreOutput(FlushTrace(Run, agent), agent.node),
                                 agent.node, OutgoingEdges(Run.edges, agent.node)),
                    agent.node, now))
            /\ now' = now + 1
            /\ pc' = AfterNode
            /\ node_index' = IF node_index < Len(Run.order) THEN node_index + 1 ELSE node_index
    /\ UNCHANGED <<created, agent, cancels, stream>>

\* lines 2194-2227 when building or logging the packet of an outgoing edge
\* raises (after k edges were handled): the exception leaves the critical section
IntegrateRaises ==
    /\ LoopReturned
    /\ InRegistry
    /\ ~Run.cancelRequested
    /\ LET out == OutgoingEdges(Run.edges, agent.node)
       IN  \E k \in 0..(Len(out) - 1) :
              RUNS' = Store(EmitHandoffs(StoreOutput(FlushTrace(Run, agent), agent.node),
                                         agent.node, SubSeq(out, 1, k)))
    /\ pc' = "except"
    /\ UNCHANGED <<created, now, node_index, agent, cancels, stream>>

\* A plausible slip: the flag is not looked at again before finalization.
FinalizeNoCheck ==
    /\ pc = "finalize"
    /\ IF ~InRegistry
       THEN /\ pc' = "done"
            /\ UNCHANGED <<RUNS, now>>
       ELSE /\ RUNS' = Store(FinalizeRunSuccess(Run, now))
            /\ now' = now + 1
            /\ pc' = "done"
    /\ UNCHANGED <<created, node_index, agent, cancels, stream>>

\* lines 2235-2242: last cancellation check and success finalization
Finalize ==
    /\ pc = "finalize"
    /\ IF ~InRegistry
       THEN /\ pc' = "done"
            /\ UNCHANGED <<RUNS, now>>
       ELSE IF Run.cancelRequested
       THEN /\ RUNS' = Store(MarkCancelled(Run, now))
            /\ now' = now + 1
            /\ pc' = "done"
       ELSE /\ RUNS' = Store(FinalizeRunSuccess(Run, now))
            /\ now' = now + 1
            /\ pc' = "done"
    /\ UNCHANGED <<created, node_index, agent, cancels, stream>>

\* _persist_run_deliverables raises (mkdir/write_text: OSError) inside
\* _finalize_run_success, after lines 1827-1830 have run
FinalizeRaises ==
    /\ pc = "finalize"
    /\ InRegistry
    /\ ~Run.cancelRequested
    /\ RUNS' = Store(FinalizeStamp(Run, now))
    /\ now' = now + 1
    /\ pc' = "except"
    /\ UNCHANGED <<created, node_index, agent, cancels, stream>>

\* str(exc) of the exception in flight: the one the decision loop raised,
\* the OSError of _persist_run_deliverables (raised after status = success),
\* or the error raised while the node's result was integrated
Exc ==
    IF LoopRaised THEN agent.error
    ELSE IF InRegistry /\ Run.status = "success" THEN "OSError"
    ELSE "MemoryError"

\* lines 2244-2269: except Exception
ExceptionHandler ==
    /\ pc = "except" \/ LoopRaised
    /\ IF ~InRegistry
       THEN UNCHANGED <<RUNS, now>>
       ELSE /\ RUNS' = Store(FailRun(Run, now, Exc))
            /\ now' = now + 1
    /\ pc' = "done"
    /\ UNCHANGED <<created, node_index, agent, cancels, stream>>

\* ------------------------------------------------- control operations
\* A plausible slip: the terminal-status early return is missing.
RequestCancelAlways(run) ==
    AppendLog([run EXCEPT !.cancelRequested = TRUE],
              "control", "Cancellation requested", None, 0)

\* A plausible slip: cancel marks the run cancelled itself, and the worker
\* marks it again when it observes the flag.
RequestCancelMarks(run) ==
    IF run.status \in TERMINAL_STATES THEN run
    ELSE MarkCancelled(AppendLog([run EXCEPT !.cancelRequested = TRUE],
                                 "control", "Cancellation requested", None, 0), 0)

\* lines 2323-2332: what cancel_workflow_run does to a run it found
RequestCancel(run) ==
    IF run.status \in TERMINAL_STATES THEN run
    ELSE AppendLog([run EXCEPT !.cancelRequested = TRUE],
                   "control", "Cancellation requested", None, 0)

CancelWorkflowRun ==
    /\ created = "admitted"
    /\ cancels < MaxCancels
    /\ cancels' = cancels + 1
    /\ IF ~InRegistry
       THEN UNCHANGED RUNS
       ELSE RUNS' = Store(RequestCancel(Run))
    /\ UNCHANGED <<created, now, pc, node_index, agent, stream>>

DeleteWorkflowRun ==
    /\ InRegistry
    /\ IF Run.status \in {"queued", "running", "awaiting_input"}
       THEN UNCHANGED RUNS
       ELSE RUNS' = <<>>
    /\ UNCHANGED <<created, now, pc, node_index, agent, cancels, stream>>

\* ------------------------------------------ stream_workflow_run_events
RECURSIVE CollectNew(_, _, _)
\* "for log in run.get('logs')": entries with seq > cursor, cursor moving along
CollectNew(logs, cursor, new_events) ==
    IF logs = <<>> THEN [cursor |-> cursor, new_events |-> new_events]
    ELSE LET seq == Head(logs).seq
         IN  IF seq > cursor
             THEN CollectNew(Tail(logs), IF seq > cursor THEN seq ELSE cursor,
                             Append(new_events, seq))
             ELSE CollectNew(Tail(logs), cursor, new_events)

\* lines 2438-2447: the new value of settled_iterations
Settle(settled_iterations, run_finished, new_events) ==
    IF run_finished
    THEN IF new_events = <<>> THEN settled_iterations + 1 ELSE 0
    ELSE 0

StreamCompleteEarly(run_finished, settled_iterations) ==
    run_finished /\ settled_iterations >= 1

\* lines 2438-2445: run:complete is yielded and the generator returns
StreamComplete(run_finished, settled_iterations) ==
    run_finished /\ settled_iterations >= 2

StreamStart ==
    /\ stream.pc = "idle"
    /\ \E last_seq \in LastSeqs :
          stream' = [stream EXCEPT !.pc = "poll", !.cursor = last_seq, !.last_seq = last_seq]
    /\ UNCHANGED <<RUNS, created, now, pc, node_index, agent, cancels>>

\* A plausible slip: a run that is gone is taken for a finished one.
StreamPollAbsentCompletes ==
    /\ stream.pc = "poll"
    /\ IF ~InRegistry
       THEN stream' = [stream EXCEPT !.pc = "complete", !.completes = @ + 1]
       ELSE LET c == CollectNew(Run.logs, stream.cursor, <<>>)
                run_finished == Run.status \in TERMINAL_STATES
                settled == Settle(stream.settled_iterations, run_finished, c.new_events)
                complete == StreamComplete(run_finished, settled)
                \* what this iteration observed: run terminal and no new log entries
                obs == (Run.status \in TERMINAL_STATES) /\ c.cursor = stream.cursor
            IN  stream' = [stream EXCEPT
                    !.cursor = c.cursor,
                    !.received = @ \o c.new_events,
                    !.settled_iterations = settled,
                    !.quiet = IF Len(@) < 2 THEN Append(@, obs) ELSE <<@[2], obs>>,
                    !.completes = IF complete THEN @ + 1 ELSE @,
                    !.pc = IF complete THEN "complete" ELSE "poll"]
    /\ UNCHANGED <<RUNS, created, now, pc, node_index, agent, cancels>>

\* one iteration of "while True"
StreamPoll ==
    /\ stream.pc = "poll"
    /\ IF ~InRegistry
       THEN stream' = [stream EXCEPT !.pc = "error"]
       ELSE LET c == CollectNew(Run.logs, stream.cursor, <<>>)
                run_finished == Run.status \in TERMINAL_STATES
                settled == Settle(stream.settled_iterations, run_finished, c.new_events)
                complete == StreamComplete(run_finished, settled)
                \* what this iteration observed: run terminal and no new log entries
                obs == (Run.status \in TERMINAL_STATES) /\ c.cursor = stream.cursor
            IN  stream' = [stream EXCEPT
                    !.cursor = c.cursor,
                    !.received = @ \o c.new_events,
                    !.settled_iterations = settled,
                    !.quiet = IF Len(@) < 2 THEN Append(@, obs) ELSE <<@[2], obs>>,
                    !.completes = IF complete THEN @ + 1 ELSE @,
                    !.pc = IF complete THEN "complete" ELSE "poll"]
    /\ UNCHANGED <<RUNS, created, now, pc, node_index, agent, cancels>>

Worker ==
    \/ ExecuteRunStart \/ NodeStart \/ PreLoopCheck \/ AgentTurn \/ LiveLogCallback
    \/ Integrate \/ IntegrateRaises \/ Finalize \/ FinalizeRaises \/ ExceptionHandler

Next ==
    \/ CreateRejected
    \/ CreateWorkflowRun
    \/ Worker
    \/ CancelWorkflowRun
    \/ DeleteWorkflowRun

NextStream ==
    \/ CreateLinearRun
    \/ Worker
    \/ CancelWorkflowRun
    \/ DeleteWorkflowRun
    \/ StreamStart
    \/ StreamPoll

Spec == Init /\ [][Next]_vars

SpecStream == Init /\ [][NextStream]_vars

\* A single-node run with one stream.  The generator is driven by its
\* consumer (the SSE response), which keeps pulling until the generator
\* returns: weak fairness of the poll iteration.
NextStreamFair ==
    \/ CreateSingleNodeRun
    \/ ExecuteRunStart \/ NodeStart \/ PreLoopCheck \/ AgentTurn \/ LiveLogCallback
    \/ Integrate \/ Finalize \/ FinalizeRaises \/ ExceptionHandler
    \/ CancelWorkflowRun
    \/ DeleteWorkflowRun
    \/ StreamStart
    \/ StreamPoll

SpecStreamFair == Init /\ [][NextStreamFair]_vars /\ WF_vars(StreamPoll)

\* a turn of a decision loop that is going to return an output: the reply is
\* not an LLM failure and the turn budget is not exhausted by it
AgentTurnReturns ==
    /\ pc = "loop"
    /\ agent.result = "none"
    /\ agent.pending = <<>>
    /\ agent.turn < agent.max_turns
    /\ \E d \in Decisions :
          /\ agent' = AgentStep(agent, d,
                                OutgoingEdges(Run.edges, agent.node) = <<>>,
                                Run.requestedCode)
          /\ agent'.result # "raise"
    /\ UNCHANGED <<RUNS, created, now, pc, node_index, cancels, stream>>

\* lines 2118-2152 with WORKFLOW_NODE_MAX_STEPS set to env
PreLoopCheckEnv ==
    /\ pc = "precheck"
    /\ IF ~InRegistry
       THEN /\ pc' = "done"
            /\ UNCHANGED <<RUNS, now, agent>>
       ELSE IF Run.cancelRequested
       THEN /\ RUNS' = Store(MarkCancelled(Run, now))
            /\ now' = now + 1
            /\ pc' = "done"
            /\ UNCHANGED agent
       ELSE /\ pc' = "loop"
            /\ \E env \in EnvValues : agent' = AgentStartEnv(CurrentNode, env)
            /\ UNCHANGED <<RUNS, now>>
    /\ UNCHANGED <<created, node_index, cancels, stream>>

\* one turn of the decision loop, for any reply of the model
LoopTurn ==
    /\ pc = "loop"
    /\ agent.result = "none"
    /\ agent.pending = <<>>
    /\ agent.turn < agent.max_turns
    /\ \E d \in LoopDecisions :
          agent' = AgentStep(agent, d,
                             OutgoingEdges(Run.edges, agent.node) = <<>>,
                             Run.requestedCode)
    /\ UNCHANGED <<RUNS, created, now, pc, node_index, cancels, stream>>

LoopWorker ==
    \/ ExecuteRunStart \/ NodeStart \/ PreLoopCheckEnv \/ LoopTurn
    \/ LiveLogCallback \/ Integrate \/ Finalize \/ ExceptionHandler

NextLoop ==
    \/ CreateSingleNodeRun
    \/ LoopWorker

\* One node's decision loop inside its worker, for every sequence of model
\* replies.  The worker thread keeps being scheduled until it returns.
SpecLoop == Init /\ [][NextLoop]_vars /\ WF_vars(LoopWorker)

\* lines 2118-2152 for a process whose decision client is c
PreLoopCheckClient ==
    /\ pc = "precheck"
    /\ IF ~InRegistry
       THEN /\ pc' = "done"
            /\ UNCHANGED <<RUNS, now, agent>>
       ELSE IF Run.cancelRequested
       THEN /\ RUNS' = Store(MarkCancelled(Run, now))
            /\ now' = now + 1
            /\ pc' = "done"
            /\ UNCHANGED agent
       ELSE /\ pc' = "loop"
            /\ \E c \in Clients : agent' = [AgentStart(CurrentNode) EXCEPT !.client = c]
            /\ UNCHANGED <<RUNS, now>>
    /\ UNCHANGED <<created, node_index, cancels, stream>>

\* one turn of the decision loop with the decision call spelled out: the
\* reply is what _invoke_runtime_agent_decision returns, or its exception
DecisionTurn ==
    /\ pc = "loop"
    /\ agent.result = "none"
    /\ agent.pending = <<>>
    /\ agent.turn < agent.max_turns
    /\ \E replies \in ReplySeqs, parsed \in SchedulerDecisions :
          LET r == InvokeRuntimeAgentDecision(agent.client, replies)
              d == IF r.raised THEN [kind |-> "llm_error", tool |-> "", ok |-> FALSE]
                   ELSE parsed
          IN  /\ parsed.kind # "llm_error"
              /\ agent' = [AgentStep(agent, d,
                                     OutgoingEdges(Run.edges, agent.node) = <<>>,
                                     Run.requestedCode)
                              EXCEPT !.llm = [attempts |-> r.attempts, replies |-> replies]]
    /\ UNCHANGED <<RUNS, created, now, pc, node_index, cancels, stream>>

NextDecision ==
    \/ CreateSingleNodeRun
    \/ ExecuteRunStart \/ NodeStart \/ PreLoopCheckClient \/ DecisionTurn
    \/ LiveLogCallback \/ Integrate \/ Finalize \/ ExceptionHandler
    \/ CancelWorkflowRun

\* a single-node run whose decision calls are followed reply by reply
SpecDecision == Init /\ [][NextDecision]_vars

\* the worker when nothing raises
SuccessWorker ==
    \/ ExecuteRunStart \/ NodeStart \/ PreLoopCheck \/ AgentTurnReturns
    \/ LiveLogCallback \/ Integrate \/ Finalize

NextSuccess ==
    \/ CreateRejected
    \/ CreateWorkflowRun
    \/ SuccessWorker
    \/ DeleteWorkflowRun

\* Runs without cancellation and without exceptions; delete may be called
\* at any time (it is refused while the run is active).  The worker is a
\* started thread, which the interpreter keeps scheduling until it returns:
\* weak fairness of its steps.
SpecSuccess == Init /\ [][NextSuccess]_vars /\ WF_vars(SuccessWorker)

\* the turn on which the model returns its final decision, with any
\* data.workspaceRefs.  auto_workspace_refs is extended only after run_tool
\* returned (line 1204), which the three-argument call never does: it is [].
FinalRefsTurn ==
    /\ pc = "loop"
    /\ agent.result = "none"
    /\ agent.pending = <<>>
    /\ agent.turn < agent.max_turns
    /\ \E model_workspace_refs \in ModelRefLists :
          LET merged == MergeWorkspaceRefs(<<>>, model_workspace_refs)
              d == [kind |-> IF merged # <<>> THEN "final_refs" ELSE "final",
                    tool |-> "", ok |-> TRUE]
          IN  agent' = [AgentStep(agent, d,
                                  OutgoingEdges(Run.edges, agent.node) = <<>>,
                                  Run.requestedCode)
                           EXCEPT !.workspaceRefs =
                                     OutputWorkspaceRefs(model_workspace_refs, merged)]
    /\ UNCHANGED <<RUNS, created, now, pc, node_index, cancels, stream>>

NextRefs ==
    \/ CreateSingleNodeRun
    \/ ExecuteRunStart \/ NodeStart \/ PreLoopCheck \/ FinalRefsTurn
    \/ LiveLogCallback \/ Integrate \/ Finalize
    \/ CancelWorkflowRun

\* a single-node run whose node answers with a final decision at once
SpecRefs == Init /\ [][NextRefs]_vars

\* ---------------------------------------------------- handoff packets
\* the field types _normalize_handoff_contract keeps
FIELD_TYPES == {"string", "number", "boolean", "array", "object", "json", "any"}

\* _default_handoff_contract: its fields
DefaultHandoffFields ==
    << [targetKey |-> "summary", sourcePath |-> "summary", type |-> "string", required |-> TRUE],
       [targetKey |-> "details", sourcePath |-> "details", type |-> "object", required |-> FALSE],
       [targetKey |-> "workspaceRefs", sourcePath |-> "data.workspaceRefs", type |-> "array",
        required |-> FALSE] >>

\* what one item of handoffContract.fields can be: not a dict, or a dict
\* with (stripped) targetKey, sourcePath, type and required
RawFieldItems ==
    {[is_dict |-> FALSE, targetKey |-> "", sourcePath |-> "", type |-> "", required |-> FALSE]}
    \cup [is_dict : {TRUE}, targetKey : {"", "summary", "notes"},
          sourcePath : {"", "summary", "data.notes"}, type : {"string"}, required : {TRUE}]
    \cup {[is_dict |-> TRUE, targetKey |-> "notes", sourcePath |-> "data.notes",
           type |-> "number", required |-> FALSE],
          [is_dict |-> TRUE, targetKey |-> "all", sourcePath |-> "output",
           type |-> "table", required |-> FALSE]}

MaxFields == 2
\* how many runs of characters a bundle file path has at most
MaxPathBlocks == 3

\* what edge["handoffContract"] can be: not a dict (or absent), a dict
\* whose "fields" is not a list, or a dict with a list of fields
RawContracts ==
    {[is_dict |-> d, fields_is_list |-> FALSE, fields |-> <<>>] : d \in BOOLEAN}
    \cup [is_dict : {TRUE}, fields_is_list : {TRUE},
          fields : UNION {[1..n -> RawFieldItems] : n \in 0..MaxFields}]

FIELDS_MAX_ITEMS == 20

RECURSIVE NormalizeFields(_)
\* the loop of _normalize_handoff_contract over raw_fields[:20]
NormalizeFields(raw_fields) ==
    IF raw_fields = <<>> THEN <<>>
    ELSE LET item == Head(raw_fields)
             rest == NormalizeFields(Tail(raw_fields))
         IN  IF ~item.is_dict \/ item.targetKey = "" \/ item.sourcePath = "" THEN rest
             ELSE <<[targetKey |-> item.targetKey,
                     sourcePath |-> item.sourcePath,
                     type |-> IF item.type \in FIELD_TYPES THEN item.type ELSE "any",
                     required |-> item.required]>> \o rest

\* _normalize_handoff_contract: the fields of the contract of an edge
NormalizeHandoffContract(edge) ==
    LET raw == IF "handoffContract" \in DOMAIN edge THEN edge.handoffContract
               ELSE [is_dict |-> FALSE, fields_is_list |-> FALSE, fields |-> <<>>]
    IN  IF ~raw.is_dict THEN DefaultHandoffFields
        ELSE LET normalized_fields ==
                     IF raw.fields_is_list
                     THEN NormalizeFields(SubSeq(raw.fields, 1,
                              IF Len(raw.fields) < FIELDS_MAX_ITEMS THEN Len(raw.fields)
                              ELSE FIELDS_MAX_ITEMS))
                     ELSE <<>>
             IN  IF normalized_fields # <<>> THEN normalized_fields ELSE DefaultHandoffFields

\* _json_path_get on the output a loop returned: found, and the kind of
\* value found.  summary is a string, details and data are dicts.
JsonPathGet(a, source_path) ==
    CASE source_path = "" -> [found |-> FALSE, value |-> "null"]
      [] source_path \in {".", "$", "output"} -> [found |-> TRUE, value |-> "dict"]
      [] source_path = "summary" -> [found |-> TRUE, value |-> "text"]
      [] source_path \in {"details", "data"} -> [found |-> TRUE, value |-> "dict"]
      [] source_path = "data.notes" ->
            IF a.data.notes = "absent" THEN [found |-> FALSE, value |-> "null"]
            ELSE [found |-> TRUE, value |-> a.data.notes]
      [] source_path = "data.workspaceRefs" ->
            IF a.workspaceRefs = <<>> THEN [found |-> FALSE, value |-> "null"]
            ELSE [found |-> TRUE, value |-> "list"]
      [] OTHER -> [found |-> FALSE, value |-> "null"]

\* _coerce_handoff_value on kinds of values: "digits" is a string that
\* parses as a number, "text" one that does not
CoerceHandoffValue(value, field_type) ==
    CASE value = "null" -> "null"
      [] field_type \in {"any", "json"} -> value
      [] field_type = "string" -> IF value \in {"text", "digits"} THEN value ELSE "text"
      [] field_type = "number" -> IF value = "digits" THEN "number" ELSE "null"
      [] field_type = "boolean" -> "null"
      [] field_type = "array" -> "list"
      [] field_type = "object" -> "dict"
      [] OTHER -> value

\* A string as its runs of characters of one kind: lower-case letters or
\* digits, upper-case letters, "_", white space, any other character.
Block(kind, len) == [kind |-> kind, len |-> len]

RECURSIVE MergeBlocks(_)
\* adjacent runs of the same kind are one run
MergeBlocks(str) ==
    IF Len(str) < 2 THEN str
    ELSE IF str[1].kind = str[2].kind
         THEN MergeBlocks(<<Block(str[1].kind, str[1].len + str[2].len)>> \o SubSeq(str, 3, Len(str)))
         ELSE <<str[1]>> \o MergeBlocks(Tail(str))

\* str.strip()
Strip(str) ==
    LET a == IF str # <<>> /\ str[1].kind = "space" THEN Tail(str) ELSE str
    IN  IF a # <<>> /\ a[Len(a)].kind = "space" THEN SubSeq(a, 1, Len(a) - 1) ELSE a

RECURSIVE Truncate(_, _)
\* str[:n]
Truncate(str, n) ==
    IF str = <<>> \/ n <= 0 THEN <<>>
    ELSE IF str[1].len >= n THEN <<Block(str[1].kind, n)>>
         ELSE <<str[1]>> \o Truncate(Tail(str), n - str[1].len)

\* _slugify_runtime: letters lower-cased, every other character "_", runs
\* of "_" made one, "_" stripped from both ends, fallback when nothing is left
SlugifyRuntime(value, fallback) ==
    LET mapped == [i \in DOMAIN value |->
                     Block(IF value[i].kind \in {"lower", "upper"} THEN "lower" ELSE "under",
                           value[i].len)]
        merged == MergeBlocks(mapped)
        single == [i \in DOMAIN merged |->
                     IF merged[i].kind = "under" THEN Block("under", 1) ELSE merged[i]]
        a == IF single # <<>> /\ single[1].kind = "under" THEN Tail(single) ELSE single
        safe == IF a # <<>> /\ a[Len(a)].kind = "under" THEN SubSeq(a, 1, Len(a) - 1) ELSE a
    IN  IF safe = <<>> THEN fallback ELSE safe

\* the literal "handoff_packet"
HANDOFF_PACKET == <<Block("lower", 7), Block("under", 1), Block("lower", 6)>>

PACKET_TYPE_MAX == 80

\* _default_handoff_contract: its packetType
DefaultPacketType(edge) ==
    LET handoff == IF "handoff" \in DOMAIN edge THEN edge.handoff ELSE <<>>
    IN  SlugifyRuntime(IF handoff = <<>> THEN HANDOFF_PACKET ELSE handoff, HANDOFF_PACKET)

\* _normalize_handoff_contract: the packetType of the contract of an edge
NormalizePacketType(edge) ==
    LET has == "handoffContract" \in DOMAIN edge
        is_dict == has /\ edge.handoffContract.is_dict
        raw_packet_type ==
            IF is_dict /\ "packetType" \in DOMAIN edge.handoffContract
            THEN Strip(edge.handoffContract.packetType) ELSE <<>>
    IN  IF ~is_dict THEN DefaultPacketType(edge)
        ELSE Truncate(SlugifyRuntime(raw_packet_type, DefaultPacketType(edge)), PACKET_TYPE_MAX)

EmptyPayload == [k \in {} |-> "null"]

RECURSIVE BuildPayloadResolvedOnly(_, _, _)
\* A plausible slip: a field whose sourcePath does not resolve is left out.
BuildPayloadResolvedOnly(fields, payload, a) ==
    IF fields = <<>> THEN payload
    ELSE LET field == Head(fields)
             got == JsonPathGet(a, field.sourcePath)
             coerced == CoerceHandoffValue(got.value, field.type)
             target_key == field.targetKey
         IN  BuildPayloadResolvedOnly(
                 Tail(fields),
                 IF target_key # "" /\ got.found
                 THEN [k \in (DOMAIN payload) \cup {target_key} |->
                          IF k = target_key THEN coerced ELSE payload[k]]
                 ELSE payload,
                 a)

RECURSIVE BuildPayload(_, _, _)
\* the loop of _build_handoff_packet over contract["fields"]: payload
BuildPayload(fields, payload, a) ==
    IF fields = <<>> THEN payload
    ELSE LET field == Head(fields)
             got == JsonPathGet(a, field.sourcePath)
             coerced == CoerceHandoffValue(IF got.found THEN got.value ELSE "null", field.type)
             target_key == field.targetKey
         IN  BuildPayload(
                 Tail(fields),
                 IF target_key # ""
                 THEN [k \in (DOMAIN payload) \cup {target_key} |->
                          IF k = target_key THEN coerced ELSE payload[k]]
                 ELSE payload,
                 a)

\* _build_handoff_packet for the edge with index e
BuildHandoffPacket(e, edge, a) ==
    LET fields == NormalizeHandoffContract(edge)
        unresolved == SelectSeq(fields, LAMBDA f : ~JsonPathGet(a, f.sourcePath).found)
    IN  [ edge |-> e,
          packetType |-> NormalizePacketType(edge),
          payload |-> BuildPayload(fields, EmptyPayload, a),
          schema |-> [i \in DOMAIN fields |->
                        [targetKey |-> fields[i].targetKey,
                         resolved |-> JsonPathGet(a, fields[i].sourcePath).found]],
          missingRequiredFields |->
              LET req == SelectSeq(unresolved, LAMBDA f : f.required)
              IN  [i \in DOMAIN req |-> req[i].targetKey] ]

RECURSIVE EmitHandoffPackets(_, _, _, _)
\* lines 2199-2227 with the packet spelled out
EmitHandoffPackets(run, node_id, idxs, a) ==
    IF idxs = <<>> THEN run
    ELSE LET e == Head(idxs)
             r1 == [run EXCEPT !.handoffPackets =
                       PutPacket(@, HandoffKey(node_id, run.edges[e].target),
                                 BuildHandoffPacket(e, run.edges[e], a))]
         IN  EmitHandoffPackets(AppendLog(r1, "handoff", "Handoff emitted", node_id, 0),
                                node_id, Tail(idxs), a)

\* create_workflow_run with two nodes and one edge that has a handoffContract
CreateHandoffRun ==
    /\ created = "none"
    /\ \E c \in RawContracts :
          LET tpl == [n |-> 2,
                      edges |-> <<[source |-> 1, target |-> 2, handoffContract |-> c]>>,
                      requestedCode |-> FALSE]
          IN  RUNS' = Store(BuildRunFromRequest(tpl))
    /\ created' = "admitted"
    /\ pc' = "start"
    /\ UNCHANGED <<now, node_index, agent, cancels, stream>>

\* the turn on which the model returns its final decision, with any data
FinalDataTurn ==
    /\ pc = "loop"
    /\ agent.result = "none"
    /\ agent.pending = <<>>
    /\ agent.turn < agent.max_turns
    /\ \E notes \in {"absent", "text", "digits"} :
          agent' = [AgentStep(agent, [kind |-> "final", tool |-> "", ok |-> TRUE],
                              OutgoingEdges(Run.edges, agent.node) = <<>>,
                              Run.requestedCode)
                       EXCEPT !.data = [notes |-> notes]]
    /\ UNCHANGED <<RUNS, created, now, pc, node_index, cancels, stream>>

\* lines 2154-2233 with the packets spelled out
IntegrateHandoff ==
    /\ LoopReturned
    /\ IF ~InRegistry
       THEN /\ pc' = "done"
            /\ UNCHANGED <<RUNS, now, node_index>>
       ELSE IF Run.cancelRequested
       THEN /\ RUNS' = Store(MarkCancelled(Run, now))
            /\ now' = now + 1
            /\ pc' = "done"
            /\ UNCHANGED node_index
       ELSE /\ RUNS' = Store(
                  CompleteNode(
                    EmitHandoffPackets(StoreOutput(FlushTrace(Run, agent), agent.node),
                                       agent.node, OutgoingEdges(Run.edges, agent.node), agent),
                    agent.node, now))
            /\ now' = now + 1
            /\ pc' = AfterNode
            /\ node_index' = IF node_index < Len(Run.order) THEN node_index + 1 ELSE node_index
    /\ UNCHANGED <<created, agent, cancels, stream>>

NextHandoff ==
    \/ CreateHandoffRun
    \/ ExecuteRunStart \/ NodeStart \/ PreLoopCheck \/ FinalDataTurn
    \/ LiveLogCallback \/ IntegrateHandoff \/ Finalize

\* a run 1 -> 2 whose edge has any handoff contract, left to run undisturbed
SpecHandoff == Init /\ [][NextHandoff]_vars

\* handoff labels (at most 240 characters) and packetTypes (1 to 80
\* characters) a template can carry
HandoffLabels ==
    { <<>>,
      <<Block("upper", 1), Block("lower", 5), Block("space", 1), Block("lower", 4)>>,
      <<Block("other", 2)>>,
      <<Block("lower", PACKET_TYPE_MAX)>>,
      <<Block("lower", PACKET_TYPE_MAX + 1)>>,
      <<Block("lower", PACKET_TYPE_MAX - 1), Block("other", 1), Block("lower", 5)>> }

RawPacketTypes ==
    { <<Block("space", 1)>>,
      <<Block("lower", 6)>>,
      <<Block("space", 1), Block("upper", 3), Block("other", 2), Block("lower", 2)>>,
      <<Block("lower", PACKET_TYPE_MAX - 1), Block("under", 1)>> }

\* a field list with no valid field, one with a valid field of an unknown
\* type, and one with two valid fields
LabelledFieldLists ==
    { <<>>,
      <<[is_dict |-> TRUE, targetKey |-> "all", sourcePath |-> "output",
         type |-> "table", required |-> FALSE]>>,
      <<[is_dict |-> TRUE, targetKey |-> "summary", sourcePath |-> "summary",
         type |-> "string", required |-> TRUE],
        [is_dict |-> TRUE, targetKey |-> "notes", sourcePath |-> "data.notes",
         type |-> "number", required |-> FALSE]>> }

\* edge["handoffContract"]: None, or a RuntimeHandoffContract
LabelledContracts ==
    {[is_dict |-> FALSE, packetType |-> <<>>, fields_is_list |-> FALSE, fields |-> <<>>]}
    \cup [is_dict : {TRUE}, packetType : RawPacketTypes, fields_is_list : {TRUE},
          fields : LabelledFieldLists]

\* create_workflow_run with two nodes and one edge with a handoff label
CreateLabelledRun ==
    /\ created = "none"
    /\ \E handoff \in HandoffLabels, c \in LabelledContracts :
          LET tpl == [n |-> 2,
                      edges |-> <<[source |-> 1, target |-> 2, handoff |-> handoff,
                                   handoffContract |-> c]>>,
                      requestedCode |-> FALSE]
          IN  RUNS' = Store(BuildRunFromRequest(tpl))
    /\ created' = "admitted"
    /\ pc' = "start"
    /\ UNCHANGED <<now, node_index, agent, cancels, stream>>

NextLabelled ==
    \/ CreateLabelledRun
    \/ ExecuteRunStart \/ NodeStart \/ PreLoopCheck \/ FinalDataTurn
    \/ LiveLogCallback \/ IntegrateHandoff \/ Finalize

\* a run 1 -> 2 whose edge has any label and contract, left to run undisturbed
SpecLabelled == Init /\ [][NextLabelled]_vars

\* ------------------------------------------- templates of any shape
\* node ids 1..OrderNodes and edge lists that may repeat an edge, close a
\* cycle or name a node the template does not have
OrderNodes == NumNodes + 1
OrderEdgePairs == [source : 1..(OrderNodes + 1), target : 1..(OrderNodes + 1)]
OrderEdgeLists == UNION {[1..k -> OrderEdgePairs] : k \in 0..(MaxEdges + 1)}

\* create_workflow_run on a template _build_run_from_request accepts
CreateOrderedRun ==
    /\ created = "none"
    /\ \E edges \in OrderEdgeLists :
          /\ BuildRunRaises(NodeIds(OrderNodes), edges) = "none"
          /\ RUNS' = Store(BuildRunFromRequest(
                        [n |-> OrderNodes, edges |-> edges, requestedCode |-> FALSE]))
    /\ created' = "admitted"
    /\ pc' = "start"
    /\ UNCHANGED <<now, node_index, agent, cancels, stream>>

\* create_workflow_run on a template _build_run_from_request raises on
CreateOrderedRejected ==
    /\ created = "none"
    /\ \E edges \in OrderEdgeLists : BuildRunRaises(NodeIds(OrderNodes), edges) # "none"
    /\ created' = "rejected"
    /\ UNCHANGED <<RUNS, now, pc, node_index, agent, cancels, stream>>

NextOrdered ==
    \/ CreateOrderedRun
    \/ CreateOrderedRejected
    \/ ExecuteRunStart \/ NodeStart \/ PreLoopCheck \/ FinalDataTurn
    \/ LiveLogCallback \/ Integrate \/ Finalize

\* runs of templates of any shape, every node answering at once
SpecOrdered == Init /\ [][NextOrdered]_vars

\* ------------------------------------------------- nodes with fan-in
\* templates in which a node has several incoming edges: the diamond
\* 1->2, 1->3, 2->4, 3->4, the diamond with the edges into 4 declared the
\* other way round, two sources into one target, and one edge declared twice
FanInTemplates ==
    { [n |-> 4, requestedCode |-> FALSE,
       edges |-> <<[source |-> 1, target |-> 2], [source |-> 1, target |-> 3],
                   [source |-> 2, target |-> 4], [source |-> 3, target |-> 4]>>],
      [n |-> 4, requestedCode |-> FALSE,
       edges |-> <<[source |-> 1, target |-> 2], [source |-> 1, target |-> 3],
                   [source |-> 3, target |-> 4], [source |-> 2, target |-> 4]>>],
      [n |-> 3, requestedCode |-> FALSE,
       edges |-> <<[source |-> 2, target |-> 3], [source |-> 1, target |-> 3]>>],
      [n |-> 2, requestedCode |-> FALSE,
       edges |-> <<[source |-> 1, target |-> 2], [source |-> 1, target |-> 2]>>] }

\* create_workflow_run called with a fan-in template
CreateFanInRun ==
    /\ created = "none"
    /\ \E tpl \in FanInTemplates :
          /\ ~TemplateRejected(tpl)
          /\ RUNS' = Store(BuildRunFromRequest(tpl))
    /\ created' = "admitted"
    /\ pc' = "start"
    /\ UNCHANGED <<now, node_index, agent, cancels, stream>>

NextFanIn ==
    \/ CreateFanInRun
    \/ Worker
    \/ CancelWorkflowRun

\* runs of the fan-in templates, with every way a node can end
SpecFanIn == Init /\ [][NextFanIn]_vars

\* ------------------------------------- edges with their own contracts
\* templates whose edges into the last node each carry a contract: two
\* sources into one target, and two edges with the same source and target
ContractTemplates ==
    { [n |-> 3, requestedCode |-> FALSE,
       edges |-> <<[source |-> 1, target |-> 3, handoffContract |-> c1],
                   [source |-> 2, target |-> 3, handoffContract |-> c2]>>]
         : c1 \in LabelledContracts, c2 \in LabelledContracts }
    \cup
    { [n |-> 2, requestedCode |-> FALSE,
       edges |-> <<[source |-> 1, target |-> 2, handoffContract |-> c1],
                   [source |-> 1, target |-> 2, handoffContract |-> c2]>>]
         : c1 \in LabelledContracts, c2 \in LabelledContracts }

\* create_workflow_run called with one of these templates; nothing in
\* _build_run_from_request rejects an edge declared twice
CreateContractRun ==
    /\ created = "none"
    /\ \E tpl \in ContractTemplates :
          /\ ~TemplateRejected(tpl)
          /\ RUNS' = Store(BuildRunFromRequest(tpl))
    /\ created' = "admitted"
    /\ pc' = "start"
    /\ UNCHANGED <<now, node_index, agent, cancels, stream>>

NextContract ==
    \/ CreateContractRun
    \/ ExecuteRunStart \/ NodeStart \/ PreLoopCheck \/ FinalDataTurn
    \/ LiveLogCallback \/ IntegrateHandoff \/ Finalize

\* runs of the templates whose edges carry contracts, left to run undisturbed
SpecContract == Init /\ [][NextContract]_vars

\* ------------------------------------------- code bundle file paths
\* A raw path is a string of runs of characters: letters and digits
\* ("alnum"), ".", "_", "-", "/", "\", whitespace ("space") and any other
\* character ("other").
SAFE_KINDS == {"alnum", "dot", "under", "dash"}

PATH_KINDS == SAFE_KINDS \cup {"slash", "bslash", "space", "other"}

SAFE_NAME_MAX == 120

\* the literal "file"
FILE_FALLBACK == <<Block("alnum", 4)>>

RECURSIVE LStripKinds(_, _)
\* str.lstrip(chars)
LStripKinds(str, kinds) ==
    IF str # <<>> /\ Head(str).kind \in kinds THEN LStripKinds(Tail(str), kinds) ELSE str

RECURSIVE RStripKinds(_, _)
\* str.rstrip(chars)
RStripKinds(str, kinds) ==
    IF str # <<>> /\ str[Len(str)].kind \in kinds
    THEN RStripKinds(SubSeq(str, 1, Len(str) - 1), kinds) ELSE str

\* A plausible slip: the "." and "_" at the ends of a name are kept.
SafeFsNameNoStrip(value, fallback) ==
    LET v == RStripKinds(LStripKinds(value, {"space"}), {"space"})
        bad == MergeBlocks([i \in DOMAIN v |->
                   Block(IF v[i].kind \in SAFE_KINDS THEN v[i].kind ELSE "bad", v[i].len)])
        sub == MergeBlocks([i \in DOMAIN bad |->
                   IF bad[i].kind = "bad" THEN Block("under", 1) ELSE bad[i]])
        cut == Truncate(sub, SAFE_NAME_MAX)
    IN  IF cut = <<>> THEN fallback ELSE cut

\* _safe_fs_name: whitespace stripped, every run of characters outside
\* [A-Za-z0-9._-] made one "_", "." and "_" stripped from both ends, the
\* first 120 characters kept, the fallback when nothing is left
SafeFsName(value, fallback) ==
    LET v == RStripKinds(LStripKinds(value, {"space"}), {"space"})
        bad == MergeBlocks([i \in DOMAIN v |->
                   Block(IF v[i].kind \in SAFE_KINDS THEN v[i].kind ELSE "bad", v[i].len)])
        sub == MergeBlocks([i \in DOMAIN bad |->
                   IF bad[i].kind = "bad" THEN Block("under", 1) ELSE bad[i]])
        cleaned == RStripKinds(LStripKinds(sub, {"dot", "under"}), {"dot", "under"})
        cut == Truncate(cleaned, SAFE_NAME_MAX)
    IN  IF cut = <<>> THEN fallback ELSE cut

RECURSIVE SplitAtSlash(_, _)
\* path.split("/") of a path whose runs of "/" are single characters; cur is
\* the part being read
SplitAtSlash(str, cur) ==
    IF str = <<>> THEN <<cur>>
    ELSE IF Head(str).kind = "slash"
         THEN <<cur>> \o SplitAtSlash(Tail(str), <<>>)
         ELSE SplitAtSlash(Tail(str), Append(cur, Head(str)))

\* _safe_bundle_rel_path: some = FALSE is None; parts are the segments that
\* "/".join puts together
SafeBundleRelPath(raw_path) ==
    LET stripped == RStripKinds(LStripKinds(raw_path, {"space"}), {"space"})
        replaced == MergeBlocks([i \in DOMAIN stripped |->
                        IF stripped[i].kind = "bslash"
                        THEN Block("slash", stripped[i].len) ELSE stripped[i]])
        single == [i \in DOMAIN replaced |->
                        IF replaced[i].kind = "slash" THEN Block("slash", 1) ELSE replaced[i]]
        path == LStripKinds(single, {"slash"})
        parts == SelectSeq(SplitAtSlash(MergeBlocks(path), <<>>),
                           LAMBDA part : part \notin {<<>>, <<Block("dot", 1)>>, <<Block("dot", 2)>>})
    IN  IF stripped = <<>> \/ path = <<>> \/ parts = <<>>
        THEN [some |-> FALSE, parts |-> <<>>]
        ELSE [some |-> TRUE,
              parts |-> [i \in DOMAIN parts |-> SafeFsName(parts[i], FILE_FALLBACK)]]

\* the characters a raw path is drawn from: one of each kind, "..", and
\* names at the 120-character limit
PathBlocks ==
    {Block(k, 1) : k \in PATH_KINDS}
    \cup {Block("dot", 2), Block("alnum", SAFE_NAME_MAX - 1), Block("alnum", SAFE_NAME_MAX)}

\* the keys of data.deliverables[name].files the model can send
RawBundlePaths == UNION {[1..n -> PathBlocks] : n \in 0..MaxPathBlocks}

\* _extract_code_bundle_files of a payload {"files": {raw_path: "..."}}: the
\* keys of the dict returned, none when it returns None
BundleFiles(raw_path) ==
    LET rel == SafeBundleRelPath(raw_path)
    IN  IF rel.some THEN {rel.parts} ELSE {}

\* the turn on which the model returns its final decision with a code bundle
\* of one file; lines 1285-1296 accept it on a sink that requires code only
\* when the bundle extracts, and the data of a rejected decision are dropped
BundleTurn ==
    /\ pc = "loop"
    /\ agent.result = "none"
    /\ agent.pending = <<>>
    /\ agent.turn < agent.max_turns
    /\ \E raw_path \in RawBundlePaths :
          LET step == AgentStep(agent,
                                [kind |-> "final", tool |-> "",
                                 ok |-> BundleFiles(raw_path) # {}],
                                OutgoingEdges(Run.edges, agent.node) = <<>>,
                                Run.requestedCode)
          IN  agent' = IF step.result = "output"
                       THEN [step EXCEPT !.data = [raw_path |-> raw_path,
                                                   files |-> BundleFiles(raw_path)]]
                       ELSE step
    /\ UNCHANGED <<RUNS, created, now, pc, node_index, cancels, stream>>

NextBundle ==
    \/ CreateSingleNodeRun
    \/ ExecuteRunStart \/ NodeStart \/ PreLoopCheck \/ BundleTurn
    \/ LiveLogCallback \/ Integrate \/ Finalize \/ ExceptionHandler

\* single-node runs whose node answers with a code bundle
SpecBundle == Init /\ [][NextBundle]_vars

\* ------------------------------------------------ the registry lock
\* _LOCK is one threading.RLock.  Every action above is one whole "with
\* _LOCK" block (or a step that takes no lock), so the lock is free in every
\* state they reach.  Here the last block of _execute_run is split at the
\* call of _persist_run_deliverables, the one place where a worker does file
\* I/O: pc = "persist" is the worker inside that call.

\* A plausible slip: the decision loop is called inside the "with _LOCK"
\* block that precedes it.
WorkerHoldsLockInLoop == pc \in {"persist", "loop"}

\* the worker thread is inside a "with _LOCK" block of _execute_run
WorkerHoldsLock == pc = "persist"

\* the worker is writing deliverable files and manifest.json
PersistingDeliverables == pc = "persist"

\* lines 2235-2242 and _finalize_run_success up to line 1926
FinalizeEnter ==
    /\ pc = "finalize"
    /\ IF ~InRegistry
       THEN /\ pc' = "done"
            /\ UNCHANGED <<RUNS, now>>
       ELSE IF Run.cancelRequested
       THEN /\ RUNS' = Store(MarkCancelled(Run, now))
            /\ now' = now + 1
            /\ pc' = "done"
       ELSE /\ RUNS' = Store(FinalizeStamp(Run, now))
            /\ pc' = "persist"
            /\ UNCHANGED now
    /\ UNCHANGED <<created, node_index, agent, cancels, stream>>

\* _persist_run_deliverables returns: lines 1927-1951, then the lock is released
PersistReturns ==
    /\ pc = "persist"
    /\ RUNS' = Store(FinalizeRunSuccess(Run, now))
    /\ now' = now + 1
    /\ pc' = "done"
    /\ UNCHANGED <<created, node_index, agent, cancels, stream>>

\* _persist_run_deliverables raises: the exception leaves the "with _LOCK"
\* block of line 2235, which releases the lock
PersistRaises ==
    /\ pc = "persist"
    /\ now' = now + 1
    /\ pc' = "except"
    /\ UNCHANGED <<RUNS, created, node_index, agent, cancels, stream>>

\* calls of other threads: each starts with "with _LOCK", which blocks while
\* the worker thread owns the lock
LockedCancel == ~WorkerHoldsLock /\ CancelWorkflowRun
LockedDelete == ~WorkerHoldsLock /\ DeleteWorkflowRun
LockedStreamPoll == ~WorkerHoldsLock /\ StreamPoll

\* get_workflow_run and list_workflow_runs: read the registry under the lock
GetWorkflowRun ==
    /\ ~WorkerHoldsLock
    /\ created = "admitted"
    /\ UNCHANGED vars

NextLock ==
    \/ CreateSingleNodeRun
    \/ ExecuteRunStart \/ NodeStart \/ PreLoopCheck \/ AgentTurn \/ LiveLogCallback
    \/ Integrate \/ FinalizeEnter \/ PersistReturns \/ PersistRaises \/ ExceptionHandler
    \/ LockedCancel
    \/ LockedDelete
    \/ StreamStart
    \/ LockedStreamPoll

\* a single-node run, its worker with the lock spelled out, and the callers
SpecLock == Init /\ [][NextLock]_vars

\* ------------------------------------------------------------ properties
NodeSet == DOMAIN Run.nodeRuns
Running == {n \in NodeSet : Run.nodeRuns[n].status = "running"}
Terminal == InRegistry /\ Run.status \in TERMINAL_STATES
Titles == {Run.logs[i].title : i \in DOMAIN Run.logs}

\* C1: once a run's status is success, failed or cancelled, no later step of
\* any thread changes its status, finishedAt or durationMs.
C1_TerminalFrozen ==
    [][ (Terminal /\ InRegistry')
        => /\ Run'.status = Run.status
           /\ Run'.finishedAt = Run.finishedAt
           /\ Run'.durationMs = Run.durationMs ]_vars

\* C2: after cancel_workflow_run has set cancelRequested on a non-terminal
\* run, the run ends with status cancelled (stated on the finished worker).
C2_CancelEndsCancelled ==
    (InRegistry /\ pc = "done" /\ Run.cancelRequested) => Run.status = "cancelled"

\* C3: at most one node run is running, and activeNodeId is that node's id
\* when one is running and null otherwise.
C3_OneRunningIsActive ==
    InRegistry =>
        /\ Cardinality(Running) <= 1
        /\ \A n \in Running : Run.activeNodeId = n
        /\ Running = {} => Run.activeNodeId = None

C3_Witness ==
    /\ InRegistry
    /\ \E n \in Running : Run.activeNodeId = n
    /\ \E m \in NodeSet : Run.nodeRuns[m].status = "success"

\* C4: a node run transitions to running only in a state where every
\* predecessor of that node has status success.
C4_StartAfterPredecessors ==
    [][ (InRegistry /\ InRegistry') =>
          \A n \in NodeSet :
             (Run.nodeRuns[n].status # "running" /\ Run'.nodeRuns[n].status = "running")
             => \A i \in DOMAIN Run.edges :
                   Run.edges[i].target = n
                   => Run.nodeRuns[Run.edges[i].source].status = "success" ]_vars

C4_Witness ==
    /\ InRegistry
    /\ \E i \in DOMAIN Run.edges :
          /\ Run.nodeRuns[Run.edges[i].target].status = "running"
          /\ Run.edges[i].source > Run.edges[i].target

\* C5: under the registry lock, _meta.nodeOutputs has an entry for node n
\* if and only if nodeRuns[n].status is success.
C5_OutputIffSuccess ==
    InRegistry =>
        \A n \in NodeSet : (n \in Run.nodeOutputs) <=> (Run.nodeRuns[n].status = "success")

\* C6: every appended log entry has a seq strictly greater than the seq of
\* every entry appended before it, whichever thread appends it.
C6_SeqStrictlyIncreasing ==
    InRegistry =>
        \A i, j \in DOMAIN Run.logs : i < j => Run.logs[i].seq < Run.logs[j].seq

C6_Witness ==
    /\ InRegistry
    /\ {"Cancellation requested", "Agent step", "Agent running", "Run failed"} \subseteq Titles

\* C7: for every edge u->v the packet "u->v" is stored and u is success with
\* finishedAt stamped before v transitions to running; a run that ends
\* success has a packet for every edge.
C7_HandoffBeforeStart ==
    InRegistry =>
        \A i \in DOMAIN Run.edges :
           LET u == Run.edges[i].source
               v == Run.edges[i].target
           IN  /\ Run.nodeRuns[v].startedAt # None
                  => /\ HandoffKey(u, v) \in DOMAIN Run.handoffPackets
                     /\ Run.nodeRuns[u].status = "success"
                     /\ Run.nodeRuns[u].finishedAt # None
                     /\ Run.nodeRuns[u].finishedAt <= Run.nodeRuns[v].startedAt
               /\ Run.status = "success"
                  => HandoffKey(u, v) \in DOMAIN Run.handoffPackets

C7_Witness ==
    /\ InRegistry
    /\ Run.status = "success"
    /\ Len(Run.edges) = MaxEdges
    /\ \E i \in DOMAIN Run.edges : Run.edges[i].source > Run.edges[i].target

\* the seqs of the log entries with seq > cursor, in log order
SeqsAfter(logs, cursor) ==
    LET idx == SelectSeq([i \in DOMAIN logs |-> i], LAMBDA i : logs[i].seq > cursor)
    IN  [k \in DOMAIN idx |-> logs[idx[k]].seq]

\* C8: a stream started with cursor lastSeq yields each log entry with
\* seq > lastSeq exactly once, in increasing seq order, before run:complete,
\* emits run:complete exactly once, and misses no entry appended to the run.
C8_StreamDeliversEveryLog ==
    /\ stream.completes <= 1
    /\ \A i, j \in DOMAIN stream.received : i < j => stream.received[i] < stream.received[j]
    /\ (stream.pc = "complete" /\ InRegistry)
       => /\ stream.completes = 1
          /\ stream.received = SeqsAfter(Run.logs, stream.last_seq)

\* C9: run:complete is emitted only after the run is terminal and two
\* consecutive poll iterations observed no new log entries; and once a run
\* that stays in the registry is terminal, the stream eventually emits
\* run:complete and stops.
C9_CompleteWhenSettled ==
    /\ [](stream.pc = "complete" => stream.quiet = <<TRUE, TRUE>>)
    /\ [](stream.pc = "complete" /\ InRegistry => Run.status \in TERMINAL_STATES)
    /\ (stream.pc = "poll" /\ Terminal) ~> (stream.pc = "complete" \/ ~InRegistry)

C9_Witness ==
    /\ stream.pc = "complete"
    /\ InRegistry
    /\ Len(stream.received) >= 4

\* C10: every trace event of a decision loop that returned an output is
\* appended to the run log exactly once.
C10_TraceLoggedOnce ==
    (InRegistry /\ agent.node # None /\ Run.nodeRuns[agent.node].status = "success")
    => \A e \in DOMAIN agent.trace_events :
          Cardinality({i \in DOMAIN Run.logs :
                          Run.logs[i].nodeId = agent.node /\ Run.logs[i].ev = e}) = 1

TitleCount(title) == Cardinality({i \in DOMAIN Run.logs : Run.logs[i].title = title})

C13_CancelSweepsNodes ==
    /\ [][ (InRegistry /\ InRegistry'
            /\ "Run cancelled" \notin Titles
            /\ "Run cancelled" \in {Run'.logs[i].title : i \in DOMAIN Run'.logs})
           => \A n \in NodeSet :
                 /\ Run.nodeRuns[n].status \in {"queued", "running"}
                    => Run'.nodeRuns[n].status = "cancelled"
                 /\ Run.nodeRuns[n].status = "success"
                    => /\ Run'.nodeRuns[n] = Run.nodeRuns[n]
                       /\ Run'.nodeRuns[n].output
                       /\ n \in Run'.nodeOutputs ]_vars
    /\ []((InRegistry /\ "Run cancelled" \in Titles)
          => \A n \in NodeSet : Run.nodeRuns[n].status \notin {"queued", "running"})

\* cancellation observed while one node had finished, one was running or
\* queued
C13_Witness ==
    /\ InRegistry
    /\ Run.status = "cancelled"
    /\ \E n \in NodeSet : Run.nodeRuns[n].status = "success" /\ Run.nodeRuns[n].output
    /\ \E n \in NodeSet : Run.nodeRuns[n].status = "cancelled"

\* C14: delete_workflow_run leaves the registry unchanged when the run is
\* queued, running or awaiting_input and removes the run otherwise; so a run
\* is removed only when its worker has finished with it.
C14_DeleteOnlyInactive ==
    /\ [][ (InRegistry /\ Run.status \in {"queued", "running", "awaiting_input"})
           => InRegistry' ]_vars
    /\ [][ (InRegistry /\ ~InRegistry') => pc = "done" ]_vars

\* C15: when an exception escapes a node's work path and the run is still
\* registered, the except clause sets the run failed with error = the
\* exception message and activeNodeId null, fails the node that was running,
\* appends 'error/Run failed', leaves every success node run with its status
\* and output, and the worker ends.
C15_ExceptionFailsRun ==
    [][ ((pc = "except" \/ LoopRaised) /\ pc' = "done" /\ InRegistry)
        => /\ InRegistry'
           /\ Run'.status = "failed"
           /\ Run'.error = Exc
           /\ Run'.error # ""
           /\ Run'.activeNodeId = None
           /\ \A n \in NodeSet :
                 /\ Run.nodeRuns[n].status = "running" => Run'.nodeRuns[n].status = "failed"
                 /\ Run.nodeRuns[n].status = "success" => Run'.nodeRuns[n] = Run.nodeRuns[n]
           /\ Run'.nodeOutputs = Run.nodeOutputs
           /\ Len(Run'.logs) = Len(Run.logs) + 1
           /\ SubSeq(Run'.logs, 1, Len(Run.logs)) = Run.logs
           /\ Run'.logs[Len(Run'.logs)].category = "error"
           /\ Run'.logs[Len(Run'.logs)].title = "Run failed" ]_vars

\* a failed run whose second node failed after the first one succeeded
C15_Witness ==
    /\ InRegistry
    /\ pc = "done"
    /\ Run.status = "failed"
    /\ Run.error # ""
    /\ \E n \in NodeSet : Run.nodeRuns[n].status = "failed"
    /\ \E n \in NodeSet : Run.nodeRuns[n].status = "success" /\ Run.nodeRuns[n].output
    /\ Run.logs[Len(Run.logs)].title = "Run failed"

\* the position of node n in the run's execution order
OrderPos(n) == CHOOSE i \in DOMAIN Run.order : Run.order[i] = n

AllNodesSucceeded ==
    /\ InRegistry
    /\ Run.status = "success"
    /\ \A n \in NodeSet : Run.nodeRuns[n].status = "success"
    /\ Run.progress.completedNodes = Run.progress.totalNodes

\* C16: an admitted DAG run with no cancellation, every decision loop
\* returning an output and finalization not raising eventually reaches
\* success with every node run success and completedNodes = totalNodes, its
\* nodes having run one at a time in topological order.
C16_RunsToSuccess ==
    /\ (InRegistry /\ Run.status \in {"queued", "running"}) ~> AllNodesSucceeded
    /\ [](InRegistry =>
            /\ Cardinality(Running) <= 1
            /\ \A i \in DOMAIN Run.edges :
                  OrderPos(Run.edges[i].source) < OrderPos(Run.edges[i].target)
            /\ \A n, m \in NodeSet :
                  (OrderPos(n) < OrderPos(m) /\ Run.nodeRuns[m].startedAt # None)
                  => /\ Run.nodeRuns[n].status = "success"
                     /\ Run.nodeRuns[n].finishedAt # None
                     /\ Run.nodeRuns[n].finishedAt <= Run.nodeRuns[m].startedAt)

C16_Witness ==
    /\ AllNodesSucceeded
    /\ pc = "done"
    /\ Run.progress.totalNodes = NumNodes
    /\ "Workflow outputs finalized" \in Titles

\* the raise that ends a loop whose turns are used up
BudgetErrors == {"exceeded max decision turns", "missing required code bundle deliverables"}

LoopActive == agent.node # None

\* C17: max_turns is WORKFLOW_NODE_MAX_STEPS clamped to 1..100, the loop
\* makes at most max_turns decisions and always ends by returning or
\* raising; when max_turns turns pass without an accepted final decision it
\* raises 'exceeded max decision turns', or, when the last turn was a final
\* decision rejected by the sink's deliverable check, that check's 'missing
\* required code bundle deliverables' error; either one fails the run.
C17_LoopBounded ==
    /\ [](\A env \in (0 - 1)..(MAX_STEPS_CAP + 1) :
            /\ ClampMaxTurns(env) \in 1..MAX_STEPS_CAP
            /\ env \in 1..MAX_STEPS_CAP => ClampMaxTurns(env) = env)
    /\ [](LoopActive =>
            /\ agent.max_turns \in 1..MAX_STEPS_CAP
            /\ agent.turn <= agent.max_turns
            /\ Cardinality({i \in DOMAIN agent.trace_events :
                               agent.trace_events[i] = "Agent step"}) <= agent.max_turns)
    /\ [](LoopActive /\ agent.result = "raise" /\ agent.error # "llm"
            => /\ agent.turn = agent.max_turns
               /\ agent.error \in BudgetErrors
               /\ agent.error = "missing required code bundle deliverables"
                  <=> agent.step_history[Len(agent.step_history)] =
                         Hist(agent.max_turns, "validation_retry", ""))
    /\ [](LoopActive /\ agent.turn = agent.max_turns => agent.result # "none")
    /\ [](InRegistry /\ pc = "done" /\ agent.result = "raise"
            => Run.status = "failed" /\ Run.error = agent.error)
    /\ (pc = "loop") ~> (pc = "done" /\ agent.result \in {"output", "raise"})

\* C17 as first stated: whenever the turns are used up without an accepted
\* final decision the error raised is 'exceeded max decision turns'.
C17_ExceededMessage ==
    (LoopActive /\ agent.turn = agent.max_turns /\ agent.result = "raise"
        /\ agent.error # "llm")
    => agent.error = "exceeded max decision turns"

\* a run failed by a loop that used all its turns, the last one on a final
\* decision the deliverable check rejected
C17_Witness ==
    /\ InRegistry
    /\ pc = "done"
    /\ Run.status = "failed"
    /\ agent.turn = MaxLoopTurns
    /\ agent.error = "missing required code bundle deliverables"
    /\ \E i \in DOMAIN agent.step_history : agent.step_history[i].action = "tool_error"

RECURSIVE RunLength(_, _)
\* how many requests in a row, ending with the i-th, name the same tool
RunLength(reqs, i) ==
    IF i = 1 \/ reqs[i - 1].tool # reqs[i].tool THEN 1
    ELSE 1 + RunLength(reqs, i - 1)

\* step_history has an entry with this action for this turn
HasEntry(turn, action) ==
    \E j \in DOMAIN agent.step_history :
        agent.step_history[j].turn = turn /\ agent.step_history[j].action = action

\* the loop called the tool on this turn: the call's outcome is in history
Executed(turn, tool) ==
    \E j \in DOMAIN agent.step_history :
        /\ agent.step_history[j].turn = turn
        /\ agent.step_history[j].tool = tool
        /\ agent.step_history[j].action \in {"tool_result", "tool_error"}

\* the turns on which some tool was called
ExecutedTurns ==
    {agent.step_history[j].turn : j \in
        {j \in DOMAIN agent.step_history :
            /\ agent.step_history[j].tool # ""
            /\ agent.step_history[j].action \in {"tool_result", "tool_error"}}}

\* C18: on a turn requesting tool T with consecutive-request count k:
\* k >= 5 adds a circuit_breaker entry, does not call T and raises nothing
\* (the loop goes on while turns are left); 3 <= k <= 4 adds a
\* repetition_warning entry and calls T; k <= 2 adds neither and calls T.
C18_RepetitionControl ==
    LoopActive =>
    \A i \in DOMAIN agent.requests :
        LET k == RunLength(agent.requests, i)
            t == agent.requests[i].turn
            T == agent.requests[i].tool
        IN  /\ k >= 5 =>
                  /\ HasEntry(t, "circuit_breaker")
                  /\ ~HasEntry(t, "repetition_warning")
                  /\ ~Executed(t, T)
                  /\ t \notin ExecutedTurns
                  /\ (agent.turn = t /\ t < agent.max_turns) => agent.result = "none"
                  /\ (agent.turn = t /\ agent.result = "raise")
                        => agent.error = "exceeded max decision turns"
            /\ (k >= 3 /\ k <= 4) =>
                  /\ HasEntry(t, "repetition_warning")
                  /\ ~HasEntry(t, "circuit_breaker")
                  /\ Executed(t, T)
            /\ k <= 2 =>
                  /\ ~HasEntry(t, "repetition_warning")
                  /\ ~HasEntry(t, "circuit_breaker")
                  /\ Executed(t, T)

\* five requests of one tool in a row, then the loop went on and another
\* tool was requested
C18_Witness ==
    /\ LoopActive
    /\ \E i \in DOMAIN agent.requests :
          RunLength(agent.requests, i) >= 5 /\ agent.requests[i].turn < agent.turn
    /\ \E i \in DOMAIN agent.requests : RunLength(agent.requests, i) = 4
    /\ \E i \in DOMAIN agent.requests : RunLength(agent.requests, i) = 2
    /\ \E i \in DOMAIN agent.requests :
          i > 1 /\ agent.requests[i].tool # agent.requests[i - 1].tool

\* C19: once a circuit_breaker entry is in a node's history, no tool is
\* called on any later turn of that loop.
C19_NoToolAfterBreaker ==
    LoopActive =>
    \A j \in DOMAIN agent.step_history :
        agent.step_history[j].action = "circuit_breaker"
        => \A t \in ExecutedTurns : t < agent.step_history[j].turn

\* C20: a request for a catalogued tool with valid arguments whose tool
\* would complete, on a turn where the loop calls the tool, appends a
\* tool_result entry and no tool_error entry and emits 'Tool call completed'.
C20_ToolResultOnSuccess ==
    LoopActive =>
    \A i \in DOMAIN agent.requests :
        LET t == agent.requests[i].turn
            T == agent.requests[i].tool
        IN  (T \in Catalog /\ agent.requests[i].ok /\ Executed(t, T))
            => /\ HasEntry(t, "tool_result")
               /\ ~HasEntry(t, "tool_error")
               /\ "Tool call completed" \in Range(agent.trace_events)

\* C21: an exception raised by a tool call never ends the decision loop and
\* never fails the run by itself: the turn records a tool_error entry and a
\* 'Tool call failed' trace event, and the loop goes on to the next turn if
\* one remains (on the last turn the loop ends with the turn-budget error).
C21_ToolErrorNotFatal ==
    /\ LoopActive =>
        \A i \in DOMAIN agent.requests :
            LET t == agent.requests[i].turn
                T == agent.requests[i].tool
            IN  (Executed(t, T)
                   /\ RunTool(T, CALL_POSITIONAL, agent.requests[i].ok) # "ok")
                => /\ HasEntry(t, "tool_error")
                   /\ ~HasEntry(t, "tool_result")
                   /\ "Tool call failed" \in Range(agent.trace_events)
                   /\ (agent.turn = t /\ t < agent.max_turns) => agent.result = "none"
                   /\ (agent.turn = t /\ agent.result = "raise")
                         => agent.error = "exceeded max decision turns"
    /\ (InRegistry /\ Run.status = "failed")
        => Run.error \in BudgetErrors \cup {"llm"}

\* a node whose tool call failed on one turn and which still returned an
\* output, its run ending in success
C21_Witness ==
    /\ InRegistry
    /\ pc = "done"
    /\ Run.status = "success"
    /\ agent.result = "output"
    /\ \E j \in DOMAIN agent.step_history :
          /\ agent.step_history[j].action = "tool_error"
          /\ agent.step_history[j].tool # ""
          /\ agent.step_history[j].turn < agent.turn

\* the node whose loop is running has no outgoing edge
AgentIsSink == OutgoingEdges(Run.edges, agent.node) = <<>>

\* C22: at a sink node of a run that requested a code-named deliverable, a
\* final decision without a valid code bundle for it is never accepted: before
\* the last turn it adds a validation_retry entry and the loop continues; on
\* the last permitted turn the loop raises the 'missing required code bundle
\* deliverables' error, which fails the run.  A bundle is valid exactly
\* when data.deliverables is a dict whose entry is a dict with a files dict
\* holding at least one usable path.
C22_SinkBundleRequired ==
    /\ \A data \in FinalData :
          FinalDecision(data).ok
          <=> /\ data.deliverables_is_dict
              /\ data.payload.kind = "dict"
              /\ data.payload.files_kind = "dict"
              /\ \E p \in data.payload.files :
                    \E k \in DOMAIN p : p[k] \notin {"", ".", ".."}
    /\ (InRegistry /\ LoopActive /\ AgentIsSink /\ Run.requestedCode) =>
        /\ \A i \in DOMAIN agent.finals :
              LET t == agent.finals[i].turn
              IN  ~agent.finals[i].ok
                  => /\ HasEntry(t, "validation_retry")
                     /\ "Deliverable contract incomplete" \in Range(agent.trace_events)
                     /\ (t < agent.max_turns /\ agent.turn = t) => agent.result = "none"
                     /\ t = agent.max_turns
                        => /\ agent.result = "raise"
                           /\ agent.error = "missing required code bundle deliverables"
                           /\ pc = "done"
                              => /\ Run.status = "failed"
                                 /\ Run.error = "missing required code bundle deliverables"
        /\ agent.result = "output"
           => /\ agent.finals # <<>>
              /\ agent.finals[Len(agent.finals)].ok
              /\ agent.finals[Len(agent.finals)].turn = agent.turn
        /\ \A n \in NodeSet : Run.nodeRuns[n].output
              => agent.finals # <<>> /\ agent.finals[Len(agent.finals)].ok

\* a sink whose final decisions lacked the bundle on an earlier turn and
\* again on the last one, failing the run
C22_Witness ==
    /\ InRegistry
    /\ pc = "done"
    /\ Run.requestedCode
    /\ Run.status = "failed"
    /\ Run.error = "missing required code bundle deliverables"
    /\ Len(agent.finals) >= 2
    /\ agent.finals[Len(agent.finals)].turn = MaxLoopTurns

\* C23: at a node with an outgoing edge a final decision is accepted as the
\* node's output on the turn it is made, whatever its deliverables and
\* whatever the run requested; no validation_retry entry is ever added.
C23_NonSinkFinalAccepted ==
    (InRegistry /\ LoopActive /\ ~AgentIsSink) =>
        /\ \A j \in DOMAIN agent.step_history :
              agent.step_history[j].action # "validation_retry"
        /\ "Deliverable contract incomplete" \notin Range(agent.trace_events)
        /\ agent.error # "missing required code bundle deliverables"
        /\ agent.finals # <<>>
           => /\ Len(agent.finals) = 1
              /\ agent.finals[1].turn = agent.turn
              /\ agent.result = "output"

\* a non-sink node of a run that requested a code deliverable whose final
\* decision carried no valid bundle, accepted and integrated
C23_Witness ==
    /\ InRegistry
    /\ LoopActive
    /\ ~AgentIsSink
    /\ Run.requestedCode
    /\ agent.finals # <<>>
    /\ ~agent.finals[1].ok
    /\ Run.nodeRuns[agent.node].status = "success"
    /\ Run.nodeRuns[agent.node].output

\* C24: on every client path, a decision whose first reply cannot be parsed
\* is requested once more, and only a second malformed reply raises; that
\* error fails the node and the run.
C24_OneRetryOnMalformed ==
    (LoopActive /\ agent.llm.attempts >= 1) =>
        /\ agent.llm.replies[1] = "malformed" => agent.llm.attempts = 2
        /\ agent.error = "llm"
           <=> (agent.llm.replies[1] = "malformed" /\ agent.llm.replies[2] = "malformed")
        /\ (agent.error = "llm" /\ pc = "done" /\ InRegistry /\ ~Run.cancelRequested)
           => /\ Run.status = "failed"
              /\ Run.nodeRuns[agent.node].status = "failed"

RECURSIVE PathOfLength(_, _, _, _)
\* edges hold a path of k edges from a to b
PathOfLength(edges, a, b, k) ==
    IF k = 1 THEN \E i \in DOMAIN edges : edges[i].source = a /\ edges[i].target = b
    ELSE \E i \in DOMAIN edges :
            edges[i].source = a /\ PathOfLength(edges, edges[i].target, b, k - 1)

\* the four defects of a request the admission check names
Defective(ids, edges) ==
    \/ \E i, j \in DOMAIN ids : i # j /\ ids[i] = ids[j]
    \/ \E i \in DOMAIN edges :
          edges[i].source \notin Range(ids) \/ edges[i].target \notin Range(ids)
    \/ \E i \in DOMAIN edges : edges[i].source = edges[i].target
    \/ \E i \in DOMAIN edges, k \in 1..Len(edges) :
          PathOfLength(edges, edges[i].source, edges[i].source, k)

\* C25: create_workflow_run on a template with a duplicate node id, a
\* cycle, an edge naming a missing node or a self-loop raises and admits
\* nothing: no run in the registry, no worker started (the workspace is
\* prepared only after _build_run_from_request returned); and a template
\* with none of these defects is not rejected.
C25_InvalidTemplateRejected ==
    /\ created = "rejected"
       => /\ RUNS = <<>>
          /\ pc = "idle"
          /\ agent = AgentIdle
          /\ \A req \in Requests :
                Defective(req.ids, req.edges) <=> BuildRunRaises(req.ids, req.edges) # "none"
    /\ (created = "admitted" /\ InRegistry)
       => ~Defective(NodeIds(Run.progress.totalNodes), Run.edges)

C25_Witness ==
    /\ created = "rejected"
    /\ RUNS = <<>>
    /\ pc = "idle"
    /\ \E req \in Requests :
          /\ BuildRunRaises(req.ids, req.edges) = "duplicate node ids"
          /\ \E r2 \in Requests : BuildRunRaises(r2.ids, r2.edges) = "must be a valid DAG"


C27_PersistOutsideLock ==
    PersistingDeliverables
    => /\ ~WorkerHoldsLock
       /\ ENABLED GetWorkflowRun
       /\ cancels < MaxCancels => ENABLED LockedCancel
       /\ stream.pc = "poll" => ENABLED LockedStreamPoll


\* C28: whenever a caller can read the run (the worker is not inside a
\* critical section), status success goes with the final-output.md entry
\* plus one entry per requested name and populated outputs, and any other
\* status goes with no deliverables and no outputs.
C28_DeliverablesIffSuccess ==
    (InRegistry /\ ~WorkerHoldsLock)
    => /\ Run.status = "success"
          => /\ Run.deliverables = 1 + (IF Run.requestedCode THEN 1 ELSE 0)
             /\ Run.outputs
       /\ Run.status # "success"
          => /\ Run.deliverables = 0
             /\ ~Run.outputs


RECURSIVE ResolveSegs(_, _)
\* the directory a path names: ".." leaves the last directory entered
ResolveSegs(stack, segs) ==
    IF segs = <<>> THEN stack
    ELSE IF Head(segs) = ".."
         THEN ResolveSegs(IF stack = <<>> THEN <<>> ELSE SubSeq(stack, 1, Len(stack) - 1),
                          Tail(segs))
         ELSE ResolveSegs(Append(stack, Head(segs)), Tail(segs))

\* the run's workspace directory is /ws; relative paths are taken from it
WorkspaceDirectory == <<"ws">>
ResolvesUnderWorkspace(path) ==
    LET r == ResolveSegs(IF path.abs THEN <<>> ELSE WorkspaceDirectory, path.segs)
    IN  /\ Len(r) >= Len(WorkspaceDirectory)
        /\ SubSeq(r, 1, Len(WorkspaceDirectory)) = WorkspaceDirectory
HasDotDot(path) == \E i \in DOMAIN path.segs : path.segs[i] = ".."

\* C29: every path in data.workspaceRefs of a completed node's output
\* resolves under the run's workspace directory and has no ".." segment,
\* refs sent by the model in its final decision included.
C29_RefsUnderWorkspace ==
    (InRegistry /\ agent.node # None /\ Run.nodeRuns[agent.node].status = "success")
    => \A i \in DOMAIN agent.workspaceRefs :
          /\ ResolvesUnderWorkspace(agent.workspaceRefs[i].path)
          /\ ~HasDotDot(agent.workspaceRefs[i].path)


Packets == {Run.handoffPackets[k] : k \in DOMAIN Run.handoffPackets}
TargetKeys(fields) == {fields[i].targetKey : i \in DOMAIN fields}

\* C30: the keys of the payload of every handoff packet are exactly the
\* targetKeys of the normalized contract fields of its edge, whether or not
\* the fields' sourcePaths resolve in the source output.
C30_PayloadKeysAreTargetKeys ==
    InRegistry
    => \A p \in Packets :
          DOMAIN p.payload = TargetKeys(NormalizeHandoffContract(Run.edges[p.edge]))

\* a packet with one field that resolved and one that did not, both in the
\* payload, the unresolved one as null
C30_Witness ==
    /\ InRegistry
    /\ \E p \in Packets :
          /\ \E i, j \in DOMAIN p.schema :
                /\ p.schema[i].resolved
                /\ ~p.schema[j].resolved
                /\ p.schema[i].targetKey # p.schema[j].targetKey
                /\ p.schema[j].targetKey \in DOMAIN p.payload
                /\ p.payload[p.schema[j].targetKey] = "null"
    /\ Run.nodeRuns[2].status = "running"


\* the indices of the edges into n, as a set
EdgesInto(n) == {i \in DOMAIN Run.edges : Run.edges[i].target = n}

\* C31: a node that has started has exactly one upstreamInputs entry per
\* incoming edge, in the order the edges are declared, each with a packet
\* and with the source node's output.
C31_UpstreamPerIncomingEdge ==
    InRegistry
    => \A n \in NodeSet :
          Run.nodeRuns[n].startedAt # None
          => LET ui == Run.nodeRuns[n].upstreamInputs
             IN  /\ Len(ui) = Cardinality(EdgesInto(n))
                 /\ \A j \in DOMAIN ui :
                       /\ ui[j].edge \in EdgesInto(n)
                       /\ ui[j].fromNodeId = Run.edges[ui[j].edge].source
                       /\ ui[j].packet # None
                       /\ ui[j].output
                 /\ \A j, k \in DOMAIN ui : j < k => ui[j].edge < ui[k].edge

\* node 4 of the diamond whose edge 3->4 is declared before 2->4 has
\* started with the entry of 3 before the entry of 2
C31_Witness ==
    /\ InRegistry
    /\ Len(Run.edges) = 4
    /\ Run.nodeRuns[4].status = "running"
    /\ Len(Run.nodeRuns[4].upstreamInputs) = 2
    /\ Run.nodeRuns[4].upstreamInputs[1].fromNodeId = 3
    /\ Run.nodeRuns[4].upstreamInputs[2].fromNodeId = 2


\* the contract _normalize_handoff_contract returns for an edge
NormalizedContract(edge) ==
    [packetType |-> NormalizePacketType(edge), fields |-> NormalizeHandoffContract(edge)]

\* the edge with that contract as its handoffContract
WithContract(edge, contract) ==
    [edge EXCEPT !.handoffContract =
        [is_dict |-> TRUE, packetType |-> contract.packetType, fields_is_list |-> TRUE,
         fields |-> [i \in DOMAIN contract.fields |->
                       [is_dict |-> TRUE,
                        targetKey |-> contract.fields[i].targetKey,
                        sourcePath |-> contract.fields[i].sourcePath,
                        type |-> contract.fields[i].type,
                        required |-> contract.fields[i].required]]]]

\* C32: normalizing the normalized contract of an edge returns the same
\* packetType and the same fields, for every edge of an admitted run.
C32_NormalizeIdempotent ==
    InRegistry
    => \A i \in DOMAIN Run.edges :
          "handoffContract" \in DOMAIN Run.edges[i]
          => NormalizedContract(WithContract(Run.edges[i], NormalizedContract(Run.edges[i])))
             = NormalizedContract(Run.edges[i])


RECURSIVE TurnStreak(_, _)
\* how many turns in a row, ending with the turn of the i-th request, were
\* requests for the same tool
TurnStreak(reqs, i) ==
    IF i = 1 \/ reqs[i - 1].tool # reqs[i].tool \/ reqs[i - 1].turn + 1 # reqs[i].turn THEN 1
    ELSE 1 + TurnStreak(reqs, i - 1)

\* C33: right after a turn that requested a tool, the consecutive-request
\* count equals the number of back-to-back turns, ending with this one, that
\* requested that tool; a turn in between that is not such a request
\* (a rejected final decision, action='tool' without tool_request) resets it.
C33_StreakIsBackToBack ==
    (/\ LoopActive
     /\ agent.requests # <<>>
     /\ agent.requests[Len(agent.requests)].turn = agent.turn)
    => agent.repeat_count = TurnStreak(agent.requests, Len(agent.requests))


\* the edges close a cycle (a self-loop is a cycle of one edge)
HasCycle(edges) ==
    \E i \in DOMAIN edges, k \in 1..Len(edges) :
        PathOfLength(edges, edges[i].source, edges[i].source, k)
NamesUnknownNode(ids, edges) ==
    \E i \in DOMAIN edges :
        edges[i].source \notin Range(ids) \/ edges[i].target \notin Range(ids)
\* order holds every id once, and the source of every edge before its target
SourcesFirst(order, ids, edges) ==
    /\ Len(order) = Len(ids)
    /\ Range(order) = Range(ids)
    /\ \A i \in DOMAIN edges :
          \E a, b \in DOMAIN order :
              order[a] = edges[i].source /\ order[b] = edges[i].target /\ a < b
\* the ids in declaration order and in the opposite order
OrderIdLists ==
    {NodeIds(OrderNodes), [i \in 1..OrderNodes |-> OrderNodes + 1 - i]}

\* C34: _topological_order returns None exactly when the edges close a
\* cycle (self-loops included) or name an unknown node; otherwise it returns
\* every node id once with the source of every edge before its target, also
\* when an edge is declared more than once.  The order of every admitted run
\* is such an order.
C34_TopologicalOrder ==
    /\ created = "rejected"
       => \A ids \in OrderIdLists, edges \in OrderEdgeLists :
             LET r == TopologicalOrder(ids, edges)
             IN  /\ ~r.ok <=> (HasCycle(edges) \/ NamesUnknownNode(ids, edges))
                 /\ r.ok => SourcesFirst(r.order, ids, edges)
    /\ (created = "admitted" /\ InRegistry)
       => /\ ~HasCycle(Run.edges)
          /\ ~NamesUnknownNode(NodeIds(Run.progress.totalNodes), Run.edges)
          /\ SourcesFirst(Run.order, NodeIds(Run.progress.totalNodes), Run.edges)

\* a run whose template declares one edge twice, against the declaration
\* order of its nodes, has run its nodes to success
C34_Witness ==
    /\ InRegistry
    /\ Len(Run.edges) > 1
    /\ Run.edges[1] = Run.edges[2]
    /\ Run.edges[1].source > Run.edges[1].target
    /\ Run.order # NodeIds(Run.progress.totalNodes)
    /\ Run.status = "success"

\* a segment of a relative path: not empty, not "." or "..", at most 120
\* characters, all of them in [A-Za-z0-9._-]
SafeSegment(part) ==
    /\ part # <<>>
    /\ part \notin {<<Block("dot", 1)>>, <<Block("dot", 2)>>}
    /\ \A i \in DOMAIN part : part[i].kind \in SAFE_KINDS /\ part[i].len > 0

RECURSIVE StaysInside(_, _)
\* bundle_dir / "/".join(parts) names a file below bundle_dir; depth is how
\* far below bundle_dir the parts read so far lead
StaysInside(parts, depth) ==
    IF parts = <<>> THEN depth > 0
    ELSE CASE Head(parts) = <<>> -> depth > 0 /\ StaysInside(Tail(parts), depth)
           [] Head(parts) = <<Block("dot", 1)>> -> StaysInside(Tail(parts), depth)
           [] Head(parts) = <<Block("dot", 2)>> ->
                 depth > 0 /\ StaysInside(Tail(parts), depth - 1)
           [] OTHER -> StaysInside(Tail(parts), depth + 1)

\* C35: every file path extracted from a code bundle is relative, each of
\* its segments is non-empty, is not "." or "..", and holds only characters
\* of [A-Za-z0-9._-], so the file is written below the bundle directory,
\* whatever path string the model sent.
C35_BundlePathsStayInside ==
    ("files" \in DOMAIN agent.data) =>
        /\ agent.data.files = BundleFiles(agent.data.raw_path)
        /\ \A parts \in agent.data.files :
              /\ parts # <<>>
              /\ \A i \in DOMAIN parts : SafeSegment(parts[i])
              /\ StaysInside(parts, 0)

\* a successful run whose bundle key was ".." followed by whitespace and "/":
\* the file was written as "file"
C35_Witness ==
    /\ InRegistry /\ Run.status = "success" /\ Run.requestedCode
    /\ "files" \in DOMAIN agent.data
    /\ Len(agent.data.raw_path) = 3
    /\ agent.data.raw_path[1] = Block("dot", 2)
    /\ agent.data.raw_path[2].kind = "space"
    /\ agent.data.raw_path[3].kind \in {"slash", "bslash"}
    /\ agent.data.files = {<<FILE_FALLBACK>>}

\* C36: once cancel_workflow_run has set cancelRequested (the run was queued
\* or running), the run never has status success: the worker looks at the
\* flag after every node and, in the critical section of the finalization,
\* once more before it finalizes.
C36_CancelledNeverSucceeds ==
    (InRegistry /\ Run.cancelRequested) => Run.status # "success"

\* the cancellation arrived after the last node was integrated and before the
\* finalization: every node succeeded and the run is cancelled
C36_Witness ==
    /\ InRegistry /\ Run.cancelRequested /\ pc = "done"
    /\ Run.status = "cancelled"
    /\ \A n \in DOMAIN Run.nodeRuns : Run.nodeRuns[n].status = "success"

\* C37: whenever the run is success, failed or cancelled, no node run is
\* running and activeNodeId is null; and when the run is success every node
\* run is success.
C37_TerminalRunIsQuiet ==
    (InRegistry /\ Run.status \in TERMINAL_STATES) =>
        /\ \A n \in DOMAIN Run.nodeRuns : Run.nodeRuns[n].status # "running"
        /\ Run.activeNodeId = None
        /\ Run.status = "success" =>
              \A n \in DOMAIN Run.nodeRuns : Run.nodeRuns[n].status = "success"

\* a run cancelled while its second node was running: the first node is
\* success, the second cancelled
C37_Witness ==
    /\ InRegistry /\ Run.status = "cancelled" /\ pc = "done"
    /\ Len(Run.order) = 2
    /\ Run.nodeRuns[Run.order[1]].status = "success"
    /\ Run.nodeRuns[Run.order[2]].status = "cancelled"
    /\ Run.nodeRuns[Run.order[2]].startedAt # None

\* C38: in a failed run at most one node run is failed, every node that never
\* started is still queued (not cancelled, not failed), and
\* progress.failedNodes is the number of failed node runs.
C38_FailedRunKeepsQueued ==
    (InRegistry /\ Run.status = "failed") =>
        LET failed == {n \in DOMAIN Run.nodeRuns : Run.nodeRuns[n].status = "failed"}
        IN  /\ Cardinality(failed) <= 1
            /\ \A n \in DOMAIN Run.nodeRuns :
                  Run.nodeRuns[n].startedAt = None => Run.nodeRuns[n].status = "queued"
            /\ Run.progress.failedNodes = Cardinality(failed)

\* a run that failed at its first node: the second node is queued for good
C38_Witness ==
    /\ InRegistry /\ Run.status = "failed" /\ pc = "done"
    /\ Len(Run.order) = 2
    /\ Run.nodeRuns[Run.order[1]].status = "failed"
    /\ Run.nodeRuns[Run.order[2]].status = "queued"
    /\ Run.progress.failedNodes = 1

\* C39: the packet in the upstreamInputs entry of an incoming edge is the one
\* built with the contract of that edge: its packetType and the keys of its
\* payload are those of the edge's normalized contract, also when two edges
\* have the same source and target.
C39_PacketMatchesEdgeContract ==
    InRegistry
    => \A n \in NodeSet :
          Run.nodeRuns[n].startedAt # None
          => \A j \in DOMAIN Run.nodeRuns[n].upstreamInputs :
                LET entry == Run.nodeRuns[n].upstreamInputs[j]
                    key == HandoffKey(entry.fromNodeId, n)
                    own == Run.edges[entry.edge]
                IN  (entry.packet # None /\ key \in DOMAIN Run.handoffPackets)
                    => LET packet == Run.handoffPackets[key]
                       IN  /\ packet.edge = entry.packet
                           /\ packet.packetType = NormalizePacketType(own)
                           /\ DOMAIN packet.payload
                                 = TargetKeys(NormalizeHandoffContract(own))

\* C40: when the run is not in the registry at a poll (unknown id, or deleted
\* after it became terminal), the stream yields the error event and stops
\* without run:complete; a stream that has ended has yielded either
\* run:complete once or the error, never both, and yields nothing more.
C40_AbsentRunEndsWithError ==
    /\ [](stream.pc = "error" => stream.completes = 0)
    /\ [](stream.pc = "complete" => stream.completes = 1)
    /\ [][ (stream.pc = "poll" /\ ~InRegistry /\ stream' # stream)
           => /\ stream'.pc = "error"
              /\ stream'.received = stream.received
              /\ stream'.completes = 0 ]_vars
    /\ [][ stream.pc \in {"error", "complete"} => stream' = stream ]_vars

\* a stream that delivered log entries of a run, then found the run deleted
C40_Witness ==
    /\ stream.pc = "error"
    /\ created = "admitted" /\ ~InRegistry
    /\ Len(stream.received) > 0
    /\ stream.settled_iterations = 1

====
